---- MODULE Spec2Model ----
(***************************************************************************)
(* The extractive summarizer of backend/app/main.py (create_better_summary) *)
(* and the word cap that get_news_summary applies to its result.            *)
(*                                                                          *)
(* A Python str is a sequence of atoms.  An atom is one whitespace          *)
(* character, one punctuation character, or one maximal alphanumeric run    *)
(* (a word).  The texts the model builds never put two word atoms side by   *)
(* side, and the code never concatenates two strings without a separator    *)
(* other than the "..." marker, so an atom sequence stands for exactly one  *)
(* character string and the str operations below act on it as Python's act  *)
(* on the characters.                                                       *)
(***************************************************************************)
EXTENDS Integers, Sequences, FiniteSets, TLC

VARIABLES
    text,           \* create_better_summary: the text argument
    max_sentences,  \* create_better_summary: the max_sentences argument
    fail,           \* which collaborator calls raise during the call
    pc,             \* "call", then "returned" or "raised"; "off" outside a call
    result,         \* what the call ended with
    summary,        \* get_news_summary: the summary before the word cap
    summary_en,     \* get_news_summary: summary_en
    cap_pc,         \* "new", then "capped"; "off" outside the word cap
    request,        \* the HTTP request a handler is called with
    upstream,       \* what the services the handler calls answer
    response,       \* the handler's HTTP response; status 0 before it
    calls,          \* the locals of the calls of create_better_summary in progress
    session_state,  \* the dashboard: st.session_state of the browser session
    cookie,         \* the dashboard: the browser's finviz_auth_token cookie
    page,           \* the dashboard: what the last run of the script did
    served          \* the dashboard: how many times the backend was asked

api_vars == <<request, upstream, response>>

dash_vars == <<session_state, cookie, page, served>>

vars == <<text, max_sentences, fail, pc, result, summary, summary_en, cap_pc,
          request, upstream, response, calls, session_state, cookie, page, served>>

----------------------------------------------------------------------------
(* Bounds of the model *)

\* Largest number of segments a generated document is made of.
MaxSegments == 4

\* Largest max_sentences argument a call is made with.
MaxK == 3

\* Largest number of characters after the run of filler words of a summary.
MaxTail == 2

\* Largest number of words appended after that.
MaxExtra == 2

----------------------------------------------------------------------------
(* Program constants *)

\* The word limit of get_news_summary: len(words) > 500, words[:500].
MaxWords == 500

----------------------------------------------------------------------------
(* Atoms *)

Whitespace == {" ", "\n"}

Terminators == {".", "!", "?"}

\* The alphanumeric tokens of the generated documents.
WordAtoms == {"rose", "fell", "Rose", "The", "the", "w", "gold", "zinc"}

IsSpace(c) == c \in Whitespace

\* str.isalnum() of a token.
IsAlnum(c) == c \in WordAtoms

\* str.lower() of one atom.
LowerAtom(c) ==
    CASE c = "Rose" -> "rose"
      [] c = "The" -> "the"
      [] OTHER -> c

\* str.lower()
Lower(s) == [i \in DOMAIN s |-> LowerAtom(s[i])]

\* stopwords.words('english'), as far as the model's vocabulary goes.
StopWords == {"the"}

----------------------------------------------------------------------------
(* str and list operations *)

Range(s) == {s[i] : i \in DOMAIN s}

\* lst[:n] for n >= 0
Take(s, n) == SubSeq(s, 1, IF n < Len(s) THEN n ELSE Len(s))

\* str.strip()
Strip(s) ==
    LET solid == {i \in DOMAIN s : ~IsSpace(s[i])}
    IN  IF solid = {} THEN <<>>
        ELSE LET lo == CHOOSE i \in solid : \A j \in solid : i <= j
                 hi == CHOOSE i \in solid : \A j \in solid : j <= i
             IN  SubSeq(s, lo, hi)

\* ' '.join(parts[lo..hi]), by halves.
RECURSIVE JoinRange(_, _, _)
JoinRange(parts, lo, hi) ==
    IF lo > hi THEN <<>>
    ELSE IF lo = hi THEN parts[lo]
    ELSE LET mid == (lo + hi) \div 2
         IN  JoinRange(parts, lo, mid) \o <<" ">> \o JoinRange(parts, mid + 1, hi)

\* ' '.join(parts)
JoinSp(parts) == JoinRange(parts, 1, Len(parts))

\* The positions of s.
Positions(s) == [i \in 1..Len(s) |-> i]

\* str.split(): the maximal runs of non-whitespace characters.
Split(s) ==
    LET starts == SelectSeq(Positions(s),
                      LAMBDA i : ~IsSpace(s[i]) /\ (i = 1 \/ IsSpace(s[i - 1])))
        ends == SelectSeq(Positions(s),
                      LAMBDA i : ~IsSpace(s[i]) /\ (i = Len(s) \/ IsSpace(s[i + 1])))
    IN  [k \in DOMAIN starts |-> SubSeq(s, starts[k], ends[k])]

\* str.rstrip()
RECURSIVE RStrip(_)
RStrip(s) ==
    IF s # <<>> /\ IsSpace(s[Len(s)]) THEN RStrip(SubSeq(s, 1, Len(s) - 1)) ELSE s

\* re.finditer(r'[.!?]\s+', s): the start of every match, in order.  A match
\* starts at a terminator that whitespace follows, so no two overlap.
FindIter(s) ==
    SelectSeq(Positions(s),
        LAMBDA i : s[i] \in Terminators /\ i < Len(s) /\ IsSpace(s[i + 1]))

\* match.end() of the match starting at i: \s+ takes the whole whitespace
\* run.  The position of the last character matched.
MatchEnd(s, i) ==
    CHOOSE j \in (i + 1)..Len(s) :
        /\ \A m \in (i + 1)..j : IsSpace(s[m])
        /\ (j = Len(s) \/ ~IsSpace(s[j + 1]))

----------------------------------------------------------------------------
(* The NLTK collaborators *)

\* The first sentence boundary of a stripped text: a terminator followed by
\* whitespace (0 when there is none).
FirstBreak(t) ==
    LET breaks == {i \in 1..(Len(t) - 1) : t[i] \in Terminators /\ IsSpace(t[i + 1])}
    IN  IF breaks = {} THEN 0 ELSE CHOOSE i \in breaks : \A j \in breaks : i <= j

\* sent_tokenize(text): the sentences are the slices of the text between
\* boundaries, the whitespace between two sentences dropped.
RECURSIVE SentTokenize(_)
SentTokenize(s) ==
    LET t == Strip(s)
    IN  IF t = <<>> THEN <<>>
        ELSE LET b == FirstBreak(t)
             IN  IF b = 0 THEN <<t>>
                 ELSE <<SubSeq(t, 1, b)>> \o SentTokenize(SubSeq(t, b + 1, Len(t)))

\* word_tokenize(s): the words and the punctuation marks, whitespace dropped.
WordTokenize(s) == SelectSeq(s, LAMBDA c : ~IsSpace(c))

----------------------------------------------------------------------------
(* create_better_summary *)

\* What a call ends with: a returned str, or an exception that leaves the
\* function.
Returned(s) == [raised |-> FALSE, value |-> s]

Raised == [raised |-> TRUE, value |-> <<>>]

\* words = [w for w in word_tokenize(text.lower())
\*          if w.isalnum() and w not in stop_words]
KeptWords(t) ==
    SelectSeq(WordTokenize(Lower(t)), LAMBDA w : IsAlnum(w) /\ w \notin StopWords)

\* word_freq: the count of every kept word of the whole document.
WordFreq(t) ==
    LET words == KeptWords(t)
    IN  [w \in Range(words) |-> Cardinality({i \in DOMAIN words : words[i] = w})]

\* The sum of word_freq[word] over the tokens lo..hi that are in word_freq, by
\* halves.
RECURSIVE SumFreqRange(_, _, _, _)
SumFreqRange(tokens, word_freq, lo, hi) ==
    IF lo > hi THEN 0
    ELSE IF lo = hi
         THEN (IF tokens[lo] \in DOMAIN word_freq THEN word_freq[tokens[lo]] ELSE 0)
    ELSE LET mid == (lo + hi) \div 2
         IN  SumFreqRange(tokens, word_freq, lo, mid)
                + SumFreqRange(tokens, word_freq, mid + 1, hi)

\* What the inner loop adds to sentence_scores[sentence] for one sentence of
\* the document: word_freq[word] for every token that is in word_freq.
SumFreq(tokens, word_freq) == SumFreqRange(tokens, word_freq, 1, Len(tokens))

\* Whether the inner loop touches sentence_scores[sentence] at all.
Scores(sentence, word_freq) ==
    \E i \in DOMAIN sentence : LowerAtom(sentence[i]) \in DOMAIN word_freq

\* sentence_scores[sentence] += ... on the dict kept as the sequence of its
\* items in insertion order.  The key is the sentence's text.
AddScore(items, sentence, n) ==
    IF \E i \in DOMAIN items : items[i].sent = sentence
    THEN [i \in DOMAIN items |->
            IF items[i].sent = sentence
            THEN [sent |-> sentence, score |-> items[i].score + n]
            ELSE items[i]]
    ELSE Append(items, [sent |-> sentence, score |-> n])

\* The scoring loop over the sentences; the result is sentence_scores.items().
RECURSIVE SentenceScores(_, _, _)
SentenceScores(sentences, word_freq, items) ==
    IF sentences = <<>> THEN items
    ELSE LET sentence == Head(sentences)
             n == SumFreq(WordTokenize(Lower(sentence)), word_freq)
         IN  SentenceScores(Tail(sentences), word_freq,
                 IF Scores(sentence, word_freq)
                 THEN AddScore(items, sentence, n)
                 ELSE items)

\* sorted(items, key=lambda x: x[1], reverse=True): a stable sort, so items
\* of equal score keep their order.
SortedByScore(items) ==
    LET before(i, j) == \/ items[i].score > items[j].score
                        \/ items[i].score = items[j].score /\ i < j
        rank(i) == 1 + Cardinality({j \in DOMAIN items : before(j, i)})
    IN  [k \in DOMAIN items |-> items[CHOOSE i \in DOMAIN items : rank(i) = k]]

\* TopSentences without the sort: the first max_sentences items of the dict.
TopSentencesUnsorted(items, k) ==
    LET top == Take(items, k)
    IN  [i \in DOMAIN top |-> top[i].sent]

\* top_sentences = [sent for sent, score in sorted_sentences[:max_sentences]]
TopSentences(items, k) ==
    LET top == Take(SortedByScore(items), k)
    IN  [i \in DOMAIN top |-> top[i].sent]

\* SummarySentences without its break: every sentence of top_sentences is kept.
SummarySentencesNoBreak(sentences, top_sentences, k, kept) ==
    SelectSeq(sentences, LAMBDA s : s \in Range(top_sentences))

\* SummarySentences without the walk over the document: top_sentences as ranked.
SummarySentencesRanked(sentences, top_sentences, k, kept) == top_sentences

\* The loop that walks the document and keeps the sentences of top_sentences,
\* leaving at the break when max_sentences are kept.
RECURSIVE SummarySentences(_, _, _, _)
SummarySentences(sentences, top_sentences, k, kept) ==
    IF sentences = <<>> THEN kept
    ELSE IF Head(sentences) \in Range(top_sentences)
         THEN IF Len(kept) + 1 >= k
              THEN Append(kept, Head(sentences))
              ELSE SummarySentences(Tail(sentences), top_sentences, k,
                                    Append(kept, Head(sentences)))
         ELSE SummarySentences(Tail(sentences), top_sentences, k, kept)

\* Fallback returning the text as it is instead of its first sentences.
FallbackWholeText(t, k, f) ==
    IF f.again THEN Raised ELSE Returned(t)

\* The except branch: sent_tokenize again, and the first max_sentences
\* sentences.  An exception here leaves the function.
Fallback(t, k, f) ==
    IF f.again THEN Raised
    ELSE Returned(JoinSp(Take(SentTokenize(t), k)))

\* ScoredSummary taking its sentences from the lower-cased text.
ScoredSummaryLowered(t, k) ==
    LET sentences == SentTokenize(Lower(t))
        word_freq == WordFreq(t)
        items == SentenceScores(sentences, word_freq, <<>>)
        top_sentences == TopSentences(items, k)
    IN  JoinSp(SummarySentences(sentences, top_sentences, k, <<>>))

\* The try branch after both tokenizers and the stopword list are there.
ScoredSummary(t, k) ==
    LET sentences == SentTokenize(t)
        word_freq == WordFreq(t)
        items == SentenceScores(sentences, word_freq, <<>>)
        top_sentences == TopSentences(items, k)
    IN  JoinSp(SummarySentences(sentences, top_sentences, k, <<>>))

\* create_better_summary without the return of a short text: every text
\* goes through the scoring.
CreateBetterSummaryNoShortcut(t, k, f) ==
    IF f.at # "none" THEN Fallback(t, k, f)
    ELSE Returned(ScoredSummary(t, k))

\* create_better_summary rebuilding a short text from its sentences.
CreateBetterSummaryRejoined(t, k, f) ==
    IF f.at = "sent" THEN Fallback(t, k, f)
    ELSE IF Len(SentTokenize(t)) <= k THEN Returned(JoinSp(SentTokenize(t)))
    ELSE IF f.at \in {"stop", "word", "score"} THEN Fallback(t, k, f)
    ELSE Returned(ScoredSummary(t, k))

\* create_better_summary(text, max_sentences).  f.at names the first call
\* that raises inside the try ("none": no call does), f.again whether
\* sent_tokenize raises in the except branch.
CreateBetterSummary(t, k, f) ==
    IF f.at = "sent" THEN Fallback(t, k, f)
    ELSE IF Len(SentTokenize(t)) <= k THEN Returned(t)
    ELSE IF f.at \in {"stop", "word", "score"} THEN Fallback(t, k, f)
    ELSE Returned(ScoredSummary(t, k))

----------------------------------------------------------------------------
(* The word cap of get_news_summary *)

\* "Unable to generate summary for this article."
Unable ==
    <<"Unable", " ", "to", " ", "generate", " ", "summary", " ", "for", " ",
      "this", " ", "article", ".">>

\* "..."
Ellipsis == <<".", ".", ".">>

\* Truncated taking one word more than the limit.
TruncatedOneMore(words) == JoinSp(Take(words, MaxWords + 1))

\* truncated = " ".join(words[:500])
Truncated(words) == JoinSp(Take(words, MaxWords))

\* CutAtSentence without the ellipsis where no sentence ending is found.
CutAtSentenceNoEllipsis(truncated) ==
    LET sentence_endings == FindIter(truncated)
    IN  IF sentence_endings # <<>>
        THEN LET last_ending == sentence_endings[Len(sentence_endings)]
             IN  RStrip(SubSeq(truncated, 1, MatchEnd(truncated, last_ending)))
                    \o Ellipsis
        ELSE truncated

\* CutAtSentence without the rstrip() of the cut text.
CutAtSentenceNoRStrip(truncated) ==
    LET sentence_endings == FindIter(truncated)
    IN  IF sentence_endings # <<>>
        THEN LET last_ending == sentence_endings[Len(sentence_endings)]
             IN  SubSeq(truncated, 1, MatchEnd(truncated, last_ending)) \o Ellipsis
        ELSE truncated \o Ellipsis

\* CutAtSentence with the pattern [.!?] in place of [.!?]\s+: the cut is at the
\* last terminator, whatever follows it.
CutAtSentenceAnyTerminator(truncated) ==
    LET sentence_endings == SelectSeq(Positions(truncated),
                                LAMBDA i : truncated[i] \in Terminators)
    IN  IF sentence_endings # <<>>
        THEN LET last_ending == sentence_endings[Len(sentence_endings)]
             IN  RStrip(SubSeq(truncated, 1, last_ending)) \o Ellipsis
        ELSE truncated \o Ellipsis

\* CutAtSentence with a terminator at the very end of the truncated text taken
\* as a sentence ending too (the pattern [.!?](\s+|$)).
CutAtSentenceEndOfText(truncated) ==
    LET sentence_endings == SelectSeq(Positions(truncated),
            LAMBDA i : /\ truncated[i] \in Terminators
                       /\ (i = Len(truncated) \/ IsSpace(truncated[i + 1])))
    IN  IF sentence_endings # <<>>
        THEN LET last_ending == sentence_endings[Len(sentence_endings)]
             IN  RStrip(SubSeq(truncated, 1, last_ending)) \o Ellipsis
        ELSE truncated \o Ellipsis

\* What summary_en becomes when len(words) > 500: the truncated text up to the
\* end of its last sentence ending, right-stripped, or the truncated text
\* itself, and the ellipsis.
CutAtSentence(truncated) ==
    LET sentence_endings == FindIter(truncated)
    IN  IF sentence_endings # <<>>
        THEN LET last_ending == sentence_endings[Len(sentence_endings)]
             IN  RStrip(SubSeq(truncated, 1, MatchEnd(truncated, last_ending)))
                    \o Ellipsis
        ELSE truncated \o Ellipsis

\* summary_en = summary or "Unable to generate summary for this article."
Defaulted(s) == IF s = <<>> THEN Unable ELSE s

\* WordCap rebuilding a summary within the limit from its words.
WordCapNormalised(s) ==
    IF s # <<>> /\ s # Unable
    THEN LET words == Split(s)
         IN  IF Len(words) > MaxWords
             THEN CutAtSentence(Truncated(words))
             ELSE JoinSp(words)
    ELSE s

\* The word cap: summary_en after lines 683-697, from summary_en before them.
WordCap(s) ==
    IF s # <<>> /\ s # Unable
    THEN LET words == Split(s)
         IN  IF Len(words) > MaxWords
             THEN CutAtSentence(Truncated(words))
             ELSE s
    ELSE s

----------------------------------------------------------------------------
(* HTTP requests and responses *)

\* The value of request, upstream and response outside a request.
NoRequest == [endpoint |-> "none"]

NoUpstream == [service |-> "none"]

NoResponse == [status |-> 0]

\* The dashboard before the script has run: no widget was used, nothing is
\* shown, no cookie is kept.
NoEvent == [kind |-> "none", password |-> <<>>, remember_me |-> FALSE, ticker |-> <<>>]

NoPage == [shown |-> "none", rerun |-> FALSE, event |-> NoEvent, fetched |-> <<>>]

NoCookie == <<>>

NoSession == [authenticated |-> FALSE]

DashOff ==
    /\ session_state = NoSession
    /\ cookie = NoCookie
    /\ page = NoPage
    /\ served = 0

\* A handler's return value, which FastAPI sends with status 200.
Ok(body) == [status |-> 200, body |-> body]

\* raise HTTPException(status_code=..., detail=...)
HTTPException(status_code) == [status |-> status_code]

----------------------------------------------------------------------------
(* The inputs *)

\* The pieces the generated documents are made of: sentences, one of them
\* with a line break after it, and a word with no terminator, which runs into
\* the piece that follows it.
Segments ==
    { <<"rose", ".">>,
      <<"fell", "!", "\n">>,
      <<"Rose", " ", "rose", "?">>,
      <<"The", ".">>,
      <<"fell">> }

\* ' '.join for the pieces of a document.
RECURSIVE JoinPieces(_)
JoinPieces(parts) ==
    IF Len(parts) = 1 THEN parts[1]
    ELSE parts[1] \o <<" ">> \o JoinPieces(Tail(parts))

Documents ==
    { JoinPieces(parts) : parts \in UNION {[1..n -> Segments] : n \in 1..MaxSegments} }

\* The ways the collaborators can fail during one call: at is the first call
\* that raises inside the try, again whether sent_tokenize raises in the
\* except branch, which is entered only after a failure.
FailureModes ==
    { f \in [at : {"none", "sent", "stop", "word", "score"}, again : BOOLEAN] :
        f.at = "none" => ~f.again }

NoFailure == [at |-> "none", again |-> FALSE]

\* max_sentences=5 in the calls of create_better_summary by get_news_summary.
NewsMaxSentences == 5

\* Six-sentence documents for max_sentences=5. The sentence with the three
\* words rose, fell and gold:
KeySentence == <<"rose", " ", "fell", " ", "gold", ".">>

\* The sentences around it: five that repeat two of its words, one with a
\* fourth word and three of one of its words.
OtherSentences ==
    << <<"rose", " ", "rose", " ", "fell", " ", "fell", "!">>,
       <<"gold", " ", "gold", " ", "rose", " ", "rose", "?">>,
       <<"fell", " ", "fell", " ", "gold", " ", "gold", ".">>,
       <<"rose", " ", "rose", " ", "rose", " ", "fell", "!">>,
       <<"gold", " ", "gold", " ", "gold", " ", "fell", "?">>,
       <<"zinc", ".">>,
       <<"rose", ".">>,
       <<"fell", "!">>,
       <<"gold", "?">> >>

\* The choices of the other sentences of a document, in the order above and
\* with repetition.
OtherChoices ==
    { c \in [1..NewsMaxSentences -> DOMAIN OtherSentences] :
        \A i \in 1..(NewsMaxSentences - 1) : c[i] <= c[i + 1] }

\* The document with the key sentence at position p among the others.
SixDocument(c, p) ==
    JoinPieces([i \in 1..(NewsMaxSentences + 1) |->
        IF i < p THEN OtherSentences[c[i]]
        ELSE IF i = p THEN KeySentence
        ELSE OtherSentences[c[i - 1]]])

SixDocuments ==
    { SixDocument(c, p) : c \in OtherChoices, p \in 1..(NewsMaxSentences + 1) }

\* The characters of the generated summaries.
SummaryChars == {"w", ".", "?", " ", "\n"}

\* The strings over SummaryChars of at most n characters.
StringsUpTo(n) == UNION {[1..m -> SummaryChars] : m \in 0..n}

\* n words joined by single spaces.
Filler(n) == [i \in 1..(2 * n - 1) |-> IF i % 2 = 1 THEN "w" ELSE " "]

\* m words more, a space before each.
Extra(m) == [i \in 1..(2 * m) |-> IF i % 2 = 1 THEN " " ELSE "w"]

\* How a generated summary starts.
Heads == { <<>>, <<" ">>, <<".", " ">>, <<"w", "?", "\n", " ">>, <<"w", ".", "w", " ">> }

\* How many filler words follow: none, or about as many as the word limit.
FillerCounts == {0} \cup ((MaxWords - 2)..(MaxWords + 1))

\* The summaries the word cap is given.
Summaries ==
    { head \o Filler(n) \o tail \o Extra(m) :
        head \in Heads, n \in FillerCounts,
        tail \in StringsUpTo(MaxTail), m \in 0..MaxExtra }

----------------------------------------------------------------------------
(* The summarizer as a state machine: one call of create_better_summary *)

Init ==
    /\ text \in Documents
    /\ max_sentences \in 1..MaxK
    /\ fail = NoFailure
    /\ pc = "call"
    /\ result = Returned(<<>>)
    /\ summary = <<>>
    /\ summary_en = <<>>
    /\ cap_pc = "off"
    /\ request = NoRequest
    /\ upstream = NoUpstream
    /\ response = NoResponse
    /\ calls = <<>>
    /\ DashOff

Summarize ==
    /\ pc = "call"
    /\ \E f \in FailureModes :
         /\ fail' = f
         /\ result' = CreateBetterSummary(text, max_sentences, f)
    /\ pc' = IF result'.raised THEN "raised" ELSE "returned"
    /\ UNCHANGED <<text, max_sentences, summary, summary_en, cap_pc, api_vars, calls,
                   dash_vars>>

Next == Summarize

Spec == Init /\ [][Next]_vars

----------------------------------------------------------------------------
(* The word cap as a state machine: lines 681-697 of one request *)

CapInit ==
    /\ summary \in Summaries
    /\ summary_en = <<>>
    /\ cap_pc = "new"
    /\ text = <<>>
    /\ max_sentences = 1
    /\ fail = NoFailure
    /\ pc = "off"
    /\ result = Returned(<<>>)
    /\ request = NoRequest
    /\ upstream = NoUpstream
    /\ response = NoResponse
    /\ calls = <<>>
    /\ DashOff

CapSummary ==
    /\ cap_pc = "new"
    /\ summary_en' = WordCap(Defaulted(summary))
    /\ cap_pc' = "capped"
    /\ UNCHANGED <<summary, text, max_sentences, fail, pc, result, api_vars, calls,
                   dash_vars>>

CapNext == CapSummary

SpecCap == CapInit /\ [][CapNext]_vars

----------------------------------------------------------------------------
(* One call of create_better_summary as get_news_summary makes it, with
   max_sentences=5, on a document of six sentences *)

SixInit ==
    /\ text \in SixDocuments
    /\ max_sentences = NewsMaxSentences
    /\ fail = NoFailure
    /\ pc = "call"
    /\ result = Returned(<<>>)
    /\ summary = <<>>
    /\ summary_en = <<>>
    /\ cap_pc = "off"
    /\ request = NoRequest
    /\ upstream = NoUpstream
    /\ response = NoResponse
    /\ calls = <<>>
    /\ DashOff

SpecSix == SixInit /\ [][Next]_vars

----------------------------------------------------------------------------
(* Calls of create_better_summary in progress at the same time, each one
   statement group at a time on its own locals *)

\* The requests whose calls are in progress.
Callers == {"a", "b"}

\* The arguments of the calls, and how the collaborators fail during them.
CallTexts ==
    { JoinPieces(<< <<"rose", ".">>, <<"fell", "!", "\n">>, <<"rose", ".">> >>),
      JoinPieces(<< <<"The", ".">>, <<"fell">>, <<"Rose", " ", "rose", "?">>,
                    <<"fell", "!", "\n">> >>) }

CallFailures ==
    { NoFailure, [at |-> "word", again |-> FALSE], [at |-> "score", again |-> TRUE] }

\* The locals of a call that has not started.
NewCall(t, k, f) ==
    [text |-> t, max_sentences |-> k, fail |-> f, pc |-> "sent",
     sentences |-> <<>>, word_freq |-> <<>>, sentence_scores |-> <<>>,
     result |-> Returned(<<>>)]

\* The dict a call starts sentence_scores from when every call shares one
\* module-level dict: what a call that scored before has left in it.
SharedSentenceScores(cs, c) ==
    LET scored == {d \in DOMAIN cs \ {c} : cs[d].sentence_scores # <<>>}
    IN  IF scored = {} THEN <<>>
        ELSE cs[CHOOSE d \in scored : TRUE].sentence_scores

\* sentence_scores = defaultdict(int): a new dict of the call c itself,
\* whatever the other calls cs hold.
NewSentenceScores(cs, c) == <<>>

CallsInit ==
    /\ calls \in [Callers -> { NewCall(t, k, f) :
                                 t \in CallTexts, k \in 1..MaxK, f \in CallFailures }]
    /\ text = <<>>
    /\ max_sentences = 1
    /\ fail = NoFailure
    /\ pc = "off"
    /\ result = Returned(<<>>)
    /\ summary = <<>>
    /\ summary_en = <<>>
    /\ cap_pc = "off"
    /\ request = NoRequest
    /\ upstream = NoUpstream
    /\ response = NoResponse
    /\ DashOff

\* What every step of a call leaves alone.
CallFrame ==
    UNCHANGED <<text, max_sentences, fail, pc, result, summary, summary_en,
                cap_pc, api_vars, dash_vars>>

\* lines 31-33: sentences = sent_tokenize(text), and the short text returned.
CallSentTokenize(c) ==
    LET l == calls[c]
        sentences == SentTokenize(l.text)
    IN  /\ l.pc = "sent"
        /\ calls' = [calls EXCEPT ![c] =
              IF l.fail.at = "sent" THEN [l EXCEPT !.pc = "except"]
              ELSE IF Len(sentences) <= l.max_sentences
                   THEN [l EXCEPT !.sentences = sentences,
                                  !.result = Returned(l.text), !.pc = "done"]
                   ELSE [l EXCEPT !.sentences = sentences, !.pc = "words"]]
        /\ CallFrame

\* lines 36-43: the stopwords, the words of the text and word_freq.
CallWordFreq(c) ==
    LET l == calls[c]
    IN  /\ l.pc = "words"
        /\ calls' = [calls EXCEPT ![c] =
              IF l.fail.at \in {"stop", "word"} THEN [l EXCEPT !.pc = "except"]
              ELSE [l EXCEPT !.word_freq = WordFreq(l.text), !.pc = "score"]]
        /\ CallFrame

\* lines 46-51: sentence_scores.
CallSentenceScores(c) ==
    LET l == calls[c]
    IN  /\ l.pc = "score"
        /\ calls' = [calls EXCEPT ![c] =
              IF l.fail.at = "score" THEN [l EXCEPT !.pc = "except"]
              ELSE [l EXCEPT !.sentence_scores =
                                 SentenceScores(l.sentences, l.word_freq,
                                                NewSentenceScores(calls, c)),
                             !.pc = "select"]]
        /\ CallFrame

\* lines 54-65: the top sentences, joined in document order.
CallSelect(c) ==
    LET l == calls[c]
        top_sentences == TopSentences(l.sentence_scores, l.max_sentences)
    IN  /\ l.pc = "select"
        /\ calls' = [calls EXCEPT ![c] =
              [l EXCEPT !.result = Returned(JoinSp(SummarySentences(
                                       l.sentences, top_sentences,
                                       l.max_sentences, <<>>))),
                        !.pc = "done"]]
        /\ CallFrame

\* lines 66-69: the except branch.
CallExcept(c) ==
    LET l == calls[c]
    IN  /\ l.pc = "except"
        /\ calls' = [calls EXCEPT ![c] =
              [l EXCEPT !.result = Fallback(l.text, l.max_sentences, l.fail),
                        !.pc = "done"]]
        /\ CallFrame

CallsNext ==
    \E c \in Callers :
        \/ CallSentTokenize(c)
        \/ CallWordFreq(c)
        \/ CallSentenceScores(c)
        \/ CallSelect(c)
        \/ CallExcept(c)

SpecCalls == CallsInit /\ [][CallsNext]_vars

----------------------------------------------------------------------------
(* GET /news/summary: get_news_summary *)

\* The article text is summarised when it has more than 200 characters.
MinSummarizeChars == 200

\* article.text[:500] where no summary could be made.
SliceChars == 500

\* The characters of the atoms lo..hi of s, an atom being as long as its
\* spelling.
RECURSIVE CharCount(_, _, _)
CharCount(s, lo, hi) ==
    IF lo > hi THEN 0
    ELSE IF lo = hi THEN Len(s[lo])
    ELSE LET mid == (lo + hi) \div 2
         IN  CharCount(s, lo, mid) + CharCount(s, mid + 1, hi)

\* len(s) of a str.
StrLen(s) == CharCount(s, 1, Len(s))

\* s[:n] of a str: the atoms that lie within the first n characters.
CharSlice(s, n) ==
    IF StrLen(s) = Len(s) THEN Take(s, n)
    ELSE Take(s, CHOOSE m \in 0..Len(s) :
                    /\ CharCount(s, 1, m) <= n
                    /\ (m = Len(s) \/ CharCount(s, 1, m + 1) > n))

\* summary, as the try of lines 662-679 leaves it. create_better_summary
\* fails again in the except branch when it failed in the try.
ArticleSummary(article, up) ==
    LET long == article.text # <<>> /\ StrLen(article.text) > MinSummarizeChars
        better == CreateBetterSummary(article.text, NewsMaxSentences, up.fail)
        sliced == IF StrLen(article.text) > SliceChars
                  THEN CharSlice(article.text, SliceChars) \o Ellipsis
                  ELSE article.text
    IN  IF up.nlp = "ok"
        THEN IF long
             THEN IF better.raised THEN sliced ELSE better.value
             ELSE up.raw_summary
        ELSE IF long /\ ~better.raised THEN better.value ELSE sliced

\* What translator.translate returns for s: a text of the target language.
Translated(s) == <<"zh-CN">> \o s

\* SummaryZh with summary_zh left empty when the translation raises.
SummaryZhEmpty(en, translate) ==
    IF translate = "raise" THEN <<>> ELSE Translated(en)

\* summary_zh after lines 700-707.
SummaryZh(en, translate) ==
    IF translate = "raise" THEN en ELSE Translated(en)

\* "https://finviz.com"
FinvizBase == <<"https://finviz.com">>

\* "No title available"
NoTitle == <<"No", " ", "title", " ", "available">>

\* An article with no publish_date (None).
NoDate == [year |-> "", month |-> "", day |-> ""]

\* publish_date.isoformat(), or None (here the empty string).
IsoFormat(date) ==
    IF date = NoDate THEN <<>>
    ELSE <<date.year, "-", date.month, "-", date.day, "T", "00:00:00">>

\* The url the article is fetched from.
ArticleUrl(url) == IF url[1] = "/" THEN FinvizBase \o url ELSE url

\* The body of a successful response, from the capped English summary.
NewsBody(req, up, en) ==
    [url          |-> ArticleUrl(req.url),
     title        |-> IF up.article.title = <<>> THEN NoTitle ELSE up.article.title,
     summary_en   |-> en,
     summary_zh   |-> SummaryZh(en, up.translate),
     authors      |-> up.article.authors,
     publish_date |-> IsoFormat(up.article.publish_date)]

\* The response of get_news_summary.
NewsSummaryResponse(req, up) ==
    IF req.url = <<>> THEN HTTPException(400)
    ELSE IF up.download = "raise" THEN HTTPException(502)
    ELSE Ok(NewsBody(req, up, WordCap(Defaulted(ArticleSummary(up.article, up)))))

\* The urls of the requests: none, relative and absolute.
Urls == { <<>>, <<"/", "news", "/", "1">>, <<"https://", "example.com", "/", "a">> }

\* A text of more than 200 characters and more than 5 sentences, one of them
\* of stopwords and one repeated.
ManySentences ==
    <<"w", ".", " ", "The", ".", " ", "w", "?", " ", "w", "!", "\n",
      "w", ".", " ">> \o Filler(MinSummarizeChars \div 2)

\* The texts of the articles: none, short ones, and long ones.
ArticleTexts ==
    { <<>>, <<"rose", ".", " ", "fell", "!", "\n">>, ManySentences }
        \cup { head \o Filler(MaxWords) :
                 head \in { <<"w", "?", "\n", " ">>, <<"w", ".", "w", " ">> } }

ArticleDates == { NoDate, [year |-> "2024", month |-> "05", day |-> "01"] }

Articles ==
    [text : ArticleTexts, title : {<<>>, <<"Title">>}, authors : {<<>>},
     publish_date : ArticleDates]

NoArticle ==
    [text |-> <<>>, title |-> <<>>, authors |-> <<>>, publish_date |-> NoDate]

\* What the article site, newspaper, NLTK and the translator answer.
NewsUpstreams ==
    { up \in [service : {"article"}, download : {"ok", "raise"},
              article : Articles, nlp : {"ok", "raise"},
              raw_summary : {<<>>, <<"rose", ".">>},
              fail : FailureModes, translate : {"ok", "raise"}] :
        /\ up.download = "raise"
             => /\ up.article = NoArticle
                /\ up.nlp = "ok" /\ up.raw_summary = <<>>
                /\ up.fail = NoFailure /\ up.translate = "ok"
        /\ up.nlp = "raise" => up.raw_summary = <<>> }

NewsRequests == [endpoint : {"/news/summary"}, url : Urls]

GetNewsSummary ==
    /\ request.endpoint = "/news/summary"
    /\ response = NoResponse
    /\ response' = NewsSummaryResponse(request, upstream)
    /\ IF response'.status = 200
       THEN /\ summary' = ArticleSummary(upstream.article, upstream)
            /\ summary_en' = response'.body.summary_en
       ELSE UNCHANGED <<summary, summary_en>>
    /\ UNCHANGED <<text, max_sentences, fail, pc, result, cap_pc, request, upstream, calls,
                   dash_vars>>

----------------------------------------------------------------------------
(* GET /quote/{ticker}: get_quote *)

\* ticker.upper() for the tickers of the requests.
Upper(ticker) ==
    [i \in DOMAIN ticker |->
        IF ticker[i] = "aapl" THEN "AAPL" ELSE ticker[i]]

\* k.lower() for the column names of the news table.
LowerKey(k) ==
    IF k = "Title" THEN "title" ELSE IF k = "Link" THEN "link" ELSE k

\* {k.lower(): v for k, v in row.items()}, a row being its (key, value) pairs.
LowerKeys(row) == [i \in DOMAIN row |-> <<LowerKey(row[i][1]), row[i][2]>>]

\* "https://finviz.com/chart.ashx?t={ticker.upper()}&ty=c&ta=1&p=d"
ChartUrl(ticker) ==
    <<"https://finviz.com/chart.ashx?t=">> \o Upper(ticker) \o <<"&ty=c&ta=1&p=d">>

\* The response of get_quote: an exception of the quote page or of its news
\* table is answered with 502.
QuoteResponse(req, up) ==
    IF req.ticker = <<>> THEN HTTPException(400)
    ELSE IF ~up.quote_ok \/ ~up.news_ok THEN HTTPException(502)
    ELSE Ok([ticker    |-> Upper(req.ticker),
             quote     |-> up.quote_data,
             news      |-> [i \in DOMAIN up.news_raw |-> LowerKeys(up.news_raw[i])],
             chart_url |-> ChartUrl(req.ticker)])

QuoteRequests == [endpoint : {"/quote"}, ticker : {<<>>, <<"aapl">>, <<"MSFT">>}]

\* What Finviz answers for a quote page and its news table.
QuoteUpstreams ==
    [service : {"finviz"}, quote_ok : BOOLEAN, news_ok : BOOLEAN,
     quote_data : {[Price |-> <<"187.20">>]},
     news_raw : { <<>>, << << <<"Title", <<"Shares", " ", "rose">> >>,
                              <<"Link", <<"/", "news", "/", "1">> >> >> >> }]

\* What a handler that is not about the summarizer leaves alone.
ApiFrame ==
    UNCHANGED <<text, max_sentences, fail, pc, result, summary, summary_en,
                cap_pc, request, upstream, calls, dash_vars>>

GetQuote ==
    /\ request.endpoint = "/quote"
    /\ response = NoResponse
    /\ response' = QuoteResponse(request, upstream)
    /\ ApiFrame

----------------------------------------------------------------------------
(* GET /screener: get_screener *)

\* limit: Optional[int] = 100
DefaultScreenerLimit == 100

\* The limit parameter of a request, absent (<<>>) or given (<<n>>).
LimitOf(req, default) == IF req.limit = <<>> THEN default ELSE req.limit[1]

\* safe_limit = max(limit or 0, 0)
SafeLimit(limit) == IF limit > 0 THEN limit ELSE 0

\* rows[:safe_limit] if safe_limit else rows
LimitedRows(rows, safe_limit) ==
    IF safe_limit # 0 THEN Take(rows, safe_limit) ELSE rows

\* The response of get_screener. The export is kept as the rows
\* csv.DictReader makes of it.
ScreenerResponse(req, up) ==
    IF ~up.export_url THEN HTTPException(500)
    ELSE IF ~up.export_ok THEN HTTPException(502)
    ELSE LET rows == LimitedRows(up.rows, SafeLimit(LimitOf(req, DefaultScreenerLimit)))
         IN  Ok([count |-> Len(rows), rows |-> rows])

\* Rows of the export: n rows with the tickers T1..Tn.
ExportRows(n) == [i \in 1..n |-> [Ticker |-> <<"T", ToString(i)>>]]

ScreenerRequests ==
    [endpoint : {"/screener"},
     limit : {<<>>, <<-1>>, <<0>>, <<1>>, <<DefaultScreenerLimit + 1>>}]

\* Whether FINVIZ_EXPORT_URL is set, whether the export is fetched, its rows.
ScreenerUpstreams ==
    [service : {"export"}, export_url : BOOLEAN, export_ok : BOOLEAN,
     rows : {ExportRows(n) : n \in {0, 2, DefaultScreenerLimit + 1}}]

GetScreener ==
    /\ request.endpoint = "/screener"
    /\ response = NoResponse
    /\ response' = ScreenerResponse(request, upstream)
    /\ ApiFrame

----------------------------------------------------------------------------
(* GET /watchlist: get_watchlist *)

\* limit: Optional[int] = 20
DefaultWatchlistLimit == 20

\* all_stocks[:200]
ScreenerScan == 200

\* max_to_process = min(100, len(candidate_tickers))
MaxToProcess == 100

\* len(ticker) <= 5
MaxTickerLen == 5

\* if score >= 2
MinScore == 2

WATCHLIST_FALLBACK_TICKERS ==
    << <<"AAPL">>, <<"MSFT">>, <<"GOOGL">>, <<"AMZN">>, <<"NVDA">>,
       <<"META">>, <<"TSLA">>, <<"AMD">>, <<"NFLX">>, <<"SMCI">>, <<"PLTR">>,
       <<"COIN">>, <<"MSTR">>, <<"GME">>, <<"AMC">>, <<"SPY">>, <<"QQQ">>,
       <<"DIA">>, <<"IWM">>, <<"VIX">>, <<"SOXL">>, <<"TQQQ">>, <<"SQQQ">>,
       <<"SPXL">>, <<"SPXS">>, <<"FNGU">>, <<"FNGD">>, <<"ARKK">>,
       <<"ARKQ">>, <<"ARKW">>, <<"ARKG">>, <<"ARKF">>, <<"BABA">>, <<"JD">>,
       <<"PDD">>, <<"NIO">>, <<"XPEV">>, <<"RIVN">>, <<"LCID">>, <<"F">>,
       <<"GM">>, <<"RBLX">>, <<"HOOD">>, <<"SOFI">>, <<"AFRM">>, <<"UPST">>,
       <<"PYPL">> >>

\* A field of the quote page: a number, a string float() rejects, or nothing.
Num(n) == [kind |-> "num", n |-> n]

Bad == [kind |-> "bad", n |-> 0]

Empty == [kind |-> "empty", n |-> 0]

Abs(n) == IF n < 0 THEN -n ELSE n

Min(a, b) == IF a < b THEN a ELSE b

\* s[:n] of a list, n negative counting from the end.
SliceTo(s, n) == IF n >= 0 THEN Take(s, n) ELSE Take(s, Len(s) + n)

\* The tickers of the first 200 rows of the export: stripped, not empty and
\* at most 5 characters long.
ExportTickers(rows) ==
    LET first == Take(rows, ScreenerScan)
        tickers == [i \in DOMAIN first |-> Strip(first[i].Ticker)]
    IN  SelectSeq(tickers, LAMBDA t : t # <<>> /\ StrLen(t) <= MaxTickerLen)

\* CandidateTickers with nothing to scan where the export cannot be fetched.
CandidateTickersNoFallback(up) ==
    IF up.export_url THEN (IF up.export_ok THEN ExportTickers(up.rows) ELSE <<>>)
    ELSE WATCHLIST_FALLBACK_TICKERS

\* candidate_tickers: from the export, or the predefined list where
\* FINVIZ_EXPORT_URL is not set or the export cannot be fetched.
CandidateTickers(up) ==
    IF up.export_url /\ up.export_ok THEN ExportTickers(up.rows)
    ELSE WATCHLIST_FALLBACK_TICKERS

\* What Finviz answers for one ticker.
QuoteOf(up, ticker) ==
    IF ticker \in DOMAIN up.quotes THEN up.quotes[ticker] ELSE up.other

\* news_count: the items among the first 20 that are not dated more than a
\* day ago; 0 where the news table could not be fetched.
NewsCount(q) ==
    IF q.news_ok
    THEN Cardinality({i \in 1..Min(20, Len(q.news)) : q.news[i].age # "old"})
    ELSE 0

\* volume_ratio = volume / avg_volume as a fraction; 0.0 where it is not
\* computed.
VolumeRatio(q) ==
    IF q.volume.kind = "num" /\ q.avg_volume.kind = "num" /\ q.avg_volume.n > 0
    THEN [num |-> q.volume.n, den |-> q.avg_volume.n]
    ELSE [num |-> 0, den |-> 1]

\* ratio > k
Above(ratio, k) == ratio.num > k * ratio.den

\* The four criteria of lines 288-395.
ChangeHit(q) == q.change.kind = "num" /\ Abs(q.change.n) > 3

VolumeHit(q) == Above(VolumeRatio(q), 2)

NewsHit(q) == NewsCount(q) >= 2

VolatilityHit(q) == q.volatility.kind = "num" /\ q.volatility.n > 30

Score(q) ==
    (IF ChangeHit(q) THEN 2 ELSE 0) + (IF VolumeHit(q) THEN 3 ELSE 0)
        + (IF NewsHit(q) THEN 2 ELSE 0) + (IF VolatilityHit(q) THEN 1 ELSE 0)

Reasons(q) ==
    SelectSeq(<<"change", "volume", "news", "volatility">>,
        LAMBDA r : \/ r = "change" /\ ChangeHit(q)
                   \/ r = "volume" /\ VolumeHit(q)
                   \/ r = "news" /\ NewsHit(q)
                   \/ r = "volatility" /\ VolatilityHit(q))

\* The four risk checks of lines 408-491, in the order they are made.
VolatilityRisk(q) ==
    IF q.volatility.kind # "num" THEN "none"
    ELSE IF q.volatility.n > 40 THEN "high"
    ELSE IF q.volatility.n > 30 THEN "medium" ELSE "none"

\* earnings.n is days_until_earnings.
EarningsRisk(q) ==
    IF q.earnings.kind # "num" THEN "none"
    ELSE IF 0 <= q.earnings.n /\ q.earnings.n <= 7 THEN "high"
    ELSE IF 8 <= q.earnings.n /\ q.earnings.n <= 14 THEN "medium" ELSE "none"

VolumeRisk(q) ==
    IF Above(VolumeRatio(q), 3) THEN "high"
    ELSE IF Above(VolumeRatio(q), 2) THEN "medium" ELSE "none"

NewsUncertaintyScore(q) ==
    Cardinality({i \in 1..Min(10, Len(q.news)) : q.news[i].uncertain})

NewsRisk(q) ==
    IF ~q.news_ok THEN "none"
    ELSE IF NewsUncertaintyScore(q) >= 3 THEN "high"
    ELSE IF NewsUncertaintyScore(q) >= 2 THEN "medium" ELSE "none"

RiskChecks(q) ==
    << [flag |-> "high_iv", severity |-> VolatilityRisk(q)],
       [flag |-> "earnings", severity |-> EarningsRisk(q)],
       [flag |-> "volume", severity |-> VolumeRisk(q)],
       [flag |-> "news", severity |-> NewsRisk(q)] >>

\* Raised_level with the level of the last triggered check.
Raised_levelLastCheck(risk_level, severity) ==
    IF severity = "none" THEN risk_level ELSE severity

\* risk_level after one check: "high" if risk_level != "high" else "high",
\* and "medium" if risk_level == "low" else risk_level.
Raised_level(risk_level, severity) ==
    IF severity = "high" THEN "high"
    ELSE IF severity = "medium"
         THEN IF risk_level = "low" THEN "medium" ELSE risk_level
         ELSE risk_level

RECURSIVE RiskLevel(_, _)
RiskLevel(checks, risk_level) ==
    IF checks = <<>> THEN risk_level
    ELSE RiskLevel(Tail(checks), Raised_level(risk_level, Head(checks).severity))

RiskFlags(q) ==
    LET hit == SelectSeq(RiskChecks(q), LAMBDA c : c.severity # "none")
    IN  [i \in DOMAIN hit |-> hit[i].flag]

\* The icon: red for high, a warning for medium or for any flag.
RiskFlag(risk_level, risk_flags) ==
    IF risk_level = "high" THEN "red"
    ELSE IF risk_level = "medium" THEN "warning"
    ELSE IF risk_flags # <<>> THEN "warning"
    ELSE ""

\* The item appended for a ticker; the fields the page only displays (price,
\* change, event type, catalyst time, last update) are not kept.
WatchlistItem(ticker, q) ==
    LET risk_level == RiskLevel(RiskChecks(q), "low")
    IN  [ticker       |-> ticker,
         volume_alert |-> Score(q) >= 3 /\ VolumeHit(q),
         volume_ratio |-> VolumeRatio(q),
         news_count   |-> NewsCount(q),
         risk_flag    |-> RiskFlag(risk_level, RiskFlags(q)),
         risk_level   |-> risk_level,
         risk_flags   |-> RiskFlags(q),
         reasons      |-> Reasons(q),
         score        |-> Score(q)]

\* WatchlistItems without the break of lines 268-269: every candidate is
\* processed.
RECURSIVE WatchlistItemsNoBreak(_, _, _, _)
WatchlistItemsNoBreak(tickers, up, limit, watchlist_items) ==
    IF tickers = <<>> THEN watchlist_items
    ELSE LET ticker == Head(tickers)
             q == QuoteOf(up, ticker)
         IN  WatchlistItemsNoBreak(Tail(tickers), up, limit,
                 IF q.quote_ok /\ Score(q) >= MinScore
                 THEN Append(watchlist_items, WatchlistItem(ticker, q))
                 ELSE watchlist_items)

\* WatchlistItems with the loop left at the first ticker whose quote page
\* raises.
RECURSIVE WatchlistItemsStopAtFailure(_, _, _, _)
WatchlistItemsStopAtFailure(tickers, up, limit, watchlist_items) ==
    IF tickers = <<>> \/ Len(watchlist_items) >= limit THEN watchlist_items
    ELSE LET ticker == Head(tickers)
             q == QuoteOf(up, ticker)
         IN  IF ~q.quote_ok THEN watchlist_items
             ELSE WatchlistItemsStopAtFailure(Tail(tickers), up, limit,
                      IF Score(q) >= MinScore
                      THEN Append(watchlist_items, WatchlistItem(ticker, q))
                      ELSE watchlist_items)

\* The loop of lines 266-546: it leaves when limit items are there, and a
\* ticker whose quote page raises is skipped.
RECURSIVE WatchlistItems(_, _, _, _)
WatchlistItems(tickers, up, limit, watchlist_items) ==
    IF tickers = <<>> \/ Len(watchlist_items) >= limit THEN watchlist_items
    ELSE LET ticker == Head(tickers)
             q == QuoteOf(up, ticker)
         IN  WatchlistItems(Tail(tickers), up, limit,
                 IF q.quote_ok /\ Score(q) >= MinScore
                 THEN Append(watchlist_items, WatchlistItem(ticker, q))
                 ELSE watchlist_items)

\* WatchlistResponse without the sort of line 549.
WatchlistResponseUnsorted(req, up) ==
    LET limit == LimitOf(req, DefaultWatchlistLimit)
        candidate_tickers == CandidateTickers(up)
        max_to_process == Min(MaxToProcess, Len(candidate_tickers))
        watchlist_items ==
            WatchlistItems(Take(candidate_tickers, max_to_process), up, limit, <<>>)
        items == SliceTo(watchlist_items, limit)
    IN  Ok([count |-> Len(items), items |-> items, timestamp |-> up.now])

\* The response of get_watchlist.
WatchlistResponse(req, up) ==
    LET limit == LimitOf(req, DefaultWatchlistLimit)
        candidate_tickers == CandidateTickers(up)
        max_to_process == Min(MaxToProcess, Len(candidate_tickers))
        watchlist_items ==
            WatchlistItems(Take(candidate_tickers, max_to_process), up, limit, <<>>)
        items == SliceTo(SortedByScore(watchlist_items), limit)
    IN  Ok([count |-> Len(items), items |-> items, timestamp |-> up.now])

\* Quote pages: one that raises, a quiet one, one that moved and whose news
\* table raises, one with volume, news and volatility, one with news only.
Failing ==
    [quote_ok |-> FALSE, news_ok |-> FALSE, change |-> Empty, volume |-> Empty,
     avg_volume |-> Empty, volatility |-> Empty, earnings |-> Empty, news |-> <<>>]

Quiet ==
    [quote_ok |-> TRUE, news_ok |-> TRUE, change |-> Num(1), volume |-> Num(10),
     avg_volume |-> Num(10), volatility |-> Bad, earnings |-> Empty,
     news |-> << [age |-> "old", uncertain |-> FALSE] >>]

Mover ==
    [quote_ok |-> TRUE, news_ok |-> FALSE, change |-> Num(-5), volume |-> Num(10),
     avg_volume |-> Num(0), volatility |-> Num(30), earnings |-> Num(10),
     news |-> <<>>]

Hot ==
    [quote_ok |-> TRUE, news_ok |-> TRUE, change |-> Num(3), volume |-> Num(31),
     avg_volume |-> Num(10), volatility |-> Num(35), earnings |-> Bad,
     news |-> << [age |-> "recent", uncertain |-> TRUE],
                 [age |-> "bad", uncertain |-> TRUE] >>]

Newsy ==
    [quote_ok |-> TRUE, news_ok |-> TRUE, change |-> Bad, volume |-> Num(25),
     avg_volume |-> Num(10), volatility |-> Num(41), earnings |-> Num(3),
     news |-> << [age |-> "none", uncertain |-> FALSE],
                 [age |-> "old", uncertain |-> FALSE],
                 [age |-> "recent", uncertain |-> FALSE] >>]

Profiles == {Failing, Quiet, Mover, Hot, Newsy}

\* The tickers whose quote pages differ from request to request.
WatchedTickers == { <<"AAPL">>, <<"MSFT">>, <<"GOOGL">> }

\* Exports: an empty one, and one with a padded, an overlong and an empty
\* ticker.
WatchlistRows ==
    { <<>>,
      << [Ticker |-> <<"GOOGL">>], [Ticker |-> <<" ", "AAPL", "\n">>],
         [Ticker |-> <<"TOOLONG">>], [Ticker |-> <<>>], [Ticker |-> <<"MSFT">>] >> }

WatchlistRequests ==
    [endpoint : {"/watchlist"}, limit : {<<>>, <<-1>>, <<0>>, <<1>>, <<2>>}]

WatchlistUpstreams ==
    [service : {"finviz+export"}, export_url : BOOLEAN, export_ok : BOOLEAN,
     rows : WatchlistRows, quotes : [WatchedTickers -> Profiles],
     other : {Quiet, Failing},
     now : {[weekday |-> 0, hour |-> 9, minute |-> 30]}]

GetWatchlist ==
    /\ request.endpoint = "/watchlist"
    /\ response = NoResponse
    /\ response' = WatchlistResponse(request, upstream)
    /\ ApiFrame

----------------------------------------------------------------------------
(* GET /market/overview: get_market_overview *)

\* "N/A"
NA == <<"N/A">>

\* est = timezone(timedelta(hours=-5)): the offset from UTC, in hours.
EstOffset == -5

\* A time of the week [weekday, hour, minute] moved by a number of hours
\* between -24 and 24.
Shifted(clock, hours) ==
    LET h == clock.hour + hours
        days == IF h < 0 THEN 6 ELSE IF h >= 24 THEN 1 ELSE 0
    IN  [weekday |-> (clock.weekday + days) % 7,
         hour    |-> (h + 24) % 24,
         minute  |-> clock.minute]

\* now = datetime.datetime.now(est): the instant of the request on a clock
\* that is always 5 hours behind UTC.
Now(up) == Shifted(up.utc, EstOffset)

\* The session of lines 121-130 for weekday, hour and minute of now.
Session(weekday, current_hour, current_minute) ==
    IF weekday >= 5 THEN "Closed"
    ELSE IF (4 <= current_hour /\ current_hour < 9)
            \/ (current_hour = 9 /\ current_minute < 30) THEN "Pre"
    ELSE IF (current_hour = 9 /\ current_minute >= 30)
            \/ (9 < current_hour /\ current_hour < 16) THEN "Regular"
    ELSE IF 16 <= current_hour /\ current_hour < 20 THEN "After"
    ELSE "Closed"

\* The entry of one index: its quote, or N/A where the quote page raised.
IndexData(q) ==
    IF q.ok
    THEN [price |-> q.data.Price, change |-> q.data.Change, change_pct |-> q.data.ChangePct]
    ELSE [price |-> NA, change |-> NA, change_pct |-> NA]

\* The entry of the VIX.
VixData(q) ==
    IF q.ok
    THEN [value |-> q.data.Price, change |-> q.data.Change, change_pct |-> q.data.ChangePct]
    ELSE [value |-> NA, change |-> NA, change_pct |-> NA]

IndexTickers == <<"SPY", "QQQ", "DIA">>

\* How many of the indices have a change_pct that starts with sign.
SignCount(indices_data, sign) ==
    Cardinality({i \in DOMAIN IndexTickers :
        LET change_pct == indices_data[IndexTickers[i]].change_pct
        IN  change_pct # <<>> /\ change_pct # NA /\ change_pct[1] = sign})

\* str(n) for a count of indices.
Str(n) == <<n>>

\* The advance/decline entry of lines 164-191.
AdvDecl(indices_data) ==
    LET up_count == SignCount(indices_data, "+")
        down_count == SignCount(indices_data, "-")
    IN  IF up_count + down_count > 0
        THEN [ratio |-> <<up_count, ":", down_count>>,
              advance |-> Str(up_count), decline |-> Str(down_count)]
        ELSE [ratio |-> NA, advance |-> NA, decline |-> NA]

\* The response of get_market_overview: every exception of a quote page is
\* caught where it is raised.
MarketOverviewResponse(req, up) ==
    LET now == Now(up)
        indices_data ==
            [t \in Range(IndexTickers) |-> IndexData(up.quotes[t])]
    IN  Ok([session   |-> Session(now.weekday, now.hour, now.minute),
            indices   |-> indices_data,
            vix       |-> VixData(up.quotes["VIX"]),
            adv_decl  |-> AdvDecl(indices_data),
            timestamp |-> now])

\* What a quote page answers: it raises, or it has the three fields, the
\* index being up, down or unchanged, or it lacks them.
QuoteAnswers ==
    { [ok |-> FALSE, data |-> [Price |-> NA, Change |-> NA, ChangePct |-> NA]],
      [ok |-> TRUE, data |-> [Price |-> <<"500.10">>, Change |-> <<"+", "1.20">>,
                              ChangePct |-> <<"+", "0.24", "%">>]],
      [ok |-> TRUE, data |-> [Price |-> <<"499.00">>, Change |-> <<"-", "2.00">>,
                              ChangePct |-> <<"-", "0.40", "%">>]],
      [ok |-> TRUE, data |-> [Price |-> NA, Change |-> NA, ChangePct |-> NA]] }

\* Instants of the week, in UTC, on both sides of every session boundary of
\* the clock of the handler.
ClockTimes ==
    [weekday : {0, 5}, hour : {0, 1, 8, 9, 14, 20, 21}, minute : {0, 29, 30}]

MarketRequests == [endpoint : {"/market/overview"}]

\* The instant of the request, whether daylight saving time is in force in
\* US Eastern time at that instant, and the quote pages.
MarketUpstreams ==
    [service : {"finviz"}, utc : ClockTimes, dst : BOOLEAN,
     quotes : [Range(IndexTickers) \cup {"VIX"} -> QuoteAnswers]]

GetMarketOverview ==
    /\ request.endpoint = "/market/overview"
    /\ response = NoResponse
    /\ response' = MarketOverviewResponse(request, upstream)
    /\ ApiFrame

----------------------------------------------------------------------------
(* The HTTP API as a state machine: one request *)

ApiInit ==
    /\ \/ request \in NewsRequests /\ upstream \in NewsUpstreams
       \/ request \in QuoteRequests /\ upstream \in QuoteUpstreams
       \/ request \in ScreenerRequests /\ upstream \in ScreenerUpstreams
       \/ request \in WatchlistRequests /\ upstream \in WatchlistUpstreams
       \/ request \in MarketRequests /\ upstream \in MarketUpstreams
    /\ response = NoResponse
    /\ calls = <<>>
    /\ DashOff
    /\ text = <<>>
    /\ max_sentences = 1
    /\ fail = NoFailure
    /\ pc = "off"
    /\ result = Returned(<<>>)
    /\ summary = <<>>
    /\ summary_en = <<>>
    /\ cap_pc = "off"

ApiNext ==
    \/ GetNewsSummary
    \/ GetQuote
    \/ GetScreener
    \/ GetWatchlist
    \/ GetMarketOverview

SpecApi == ApiInit /\ [][ApiNext]_vars

----------------------------------------------------------------------------
(* GET /watchlist for one ticker, its quote page on both sides of every
   threshold of the risk checks *)

\* Volatility: none, unreadable, and the values around 30 and 40.
RiskVolatilities == {Empty, Bad, Num(30), Num(31), Num(40), Num(41)}

\* Days until earnings: none, unreadable, and the values around 0, 7 and 14.
RiskEarnings == {Empty, Bad, Num(-1), Num(0), Num(7), Num(8), Num(14), Num(15)}

\* Volume for an average volume of 10: ratios around 2 and 3.
RiskVolumes == {Empty, Num(20), Num(21), Num(30), Num(31)}

\* News tables with 0 to 3 titles that hold an uncertainty keyword.
RiskNews ==
    { [i \in 1..n |-> [age |-> "old", uncertain |-> i <= k]] : n \in {3}, k \in 0..3 }

RiskPages ==
    { [quote_ok |-> TRUE, news_ok |-> ok, change |-> Num(c), volume |-> v,
       avg_volume |-> Num(10), volatility |-> vol, earnings |-> e,
       news |-> IF ok THEN n ELSE <<>>] :
        ok \in BOOLEAN, c \in {1, 4}, v \in RiskVolumes, vol \in RiskVolatilities,
        e \in RiskEarnings, n \in RiskNews }

RiskUpstreams ==
    { [service |-> "finviz+export", export_url |-> TRUE, export_ok |-> TRUE,
       rows |-> << [Ticker |-> <<"AAPL">>] >>,
       quotes |-> [t \in WatchedTickers |-> q], other |-> Quiet,
       now |-> [weekday |-> 0, hour |-> 9, minute |-> 30]] : q \in RiskPages }

RiskInit ==
    /\ request = [endpoint |-> "/watchlist", limit |-> <<>>]
    /\ upstream \in RiskUpstreams
    /\ response = NoResponse
    /\ calls = <<>>
    /\ DashOff
    /\ text = <<>>
    /\ max_sentences = 1
    /\ fail = NoFailure
    /\ pc = "off"
    /\ result = Returned(<<>>)
    /\ summary = <<>>
    /\ summary_en = <<>>
    /\ cap_pc = "off"

RiskNext == GetWatchlist

SpecRisk == RiskInit /\ [][RiskNext]_vars

----------------------------------------------------------------------------
(* GET /market/overview at every minute of the week *)

\* Every instant of the week, in UTC, to the minute.
AllClockTimes == [weekday : 0..6, hour : 0..23, minute : 0..59]

\* The quote pages of the indices and of the VIX, all up.
SteadyQuotes ==
    [t \in Range(IndexTickers) \cup {"VIX"} |->
        [ok |-> TRUE, data |-> [Price |-> <<"500.10">>, Change |-> <<"+", "1.20">>,
                                ChangePct |-> <<"+", "0.24", "%">>]]]

SessionUpstreams ==
    [service : {"finviz"}, utc : AllClockTimes, dst : BOOLEAN, quotes : {SteadyQuotes}]

SessionInit ==
    /\ request \in MarketRequests
    /\ upstream \in SessionUpstreams
    /\ response = NoResponse
    /\ calls = <<>>
    /\ DashOff
    /\ text = <<>>
    /\ max_sentences = 1
    /\ fail = NoFailure
    /\ pc = "off"
    /\ result = Returned(<<>>)
    /\ summary = <<>>
    /\ summary_en = <<>>
    /\ cap_pc = "off"

SessionNext == GetMarketOverview

SpecSession == SessionInit /\ [][SessionNext]_vars

----------------------------------------------------------------------------
(* The dashboard: streamlit_app.py.  Streamlit runs the script from top to
   bottom for every page load and every use of a widget; one step is one run
   of the script *)

\* How many times the backend is asked for a quote or a summary.
MaxServed == 3

\* APP_PASSWORD = get_secret("VITE_APP_PASSWORD", "daiweihao1990")
APP_PASSWORD == <<"daiweihao1990">>

\* hashlib.md5(password.encode()).hexdigest()[:16]
AuthToken(password) == <<"md5", password>>

\* generate_auth_token()
generate_auth_token == AuthToken(APP_PASSWORD)

\* A part ("quote", "news" or "chart_url") of the answer the backend gave to
\* the id-th request, which was for ticker.
Part(part, ticker, id) == [part |-> part, ticker |-> ticker, id |-> id]

\* The default of data.get for a part: {}, [] or "".
Missing(part) == Part(part, <<>>, 0)

\* st.session_state after the initialisations of lines 227-230 and 260-279;
\* None is 0 for last_refresh_time and the empty string for current_ticker.
Defaults ==
    [authenticated        |-> FALSE,
     cookie_checked       |-> FALSE,
     summaries            |-> {},
     auto_refresh_enabled |-> FALSE,
     last_refresh_time    |-> 0,
     current_ticker       |-> <<>>,
     current_quote        |-> Missing("quote"),
     current_news         |-> Missing("news"),
     current_chart_url    |-> Missing("chart_url"),
     ticker_input         |-> <<>>]

\* What happens to GET {API_BASE}/quote/{ticker}: localhost cannot be
\* resolved, the connection fails, the status is an error, the body is not
\* JSON, the body is JSON but not an object, it is an object without the
\* fields, or it is the answer of the backend.
Answers ==
    {"unresolved", "connection_error", "http_error", "not_json", "not_object",
     "no_fields", "quote"}

\* fetch_quote_data(ticker_symbol) at time now: the session state it leaves
\* and its return value.  Of a body that is not an object, data.get raises
\* after current_ticker was assigned.
fetch_quote_data(ss, ticker_symbol, answer, now) ==
    IF answer = "quote"
    THEN [ss |-> [ss EXCEPT
                    !.current_ticker = Upper(ticker_symbol),
                    !.current_quote = Part("quote", Upper(ticker_symbol), now),
                    !.current_news = Part("news", Upper(ticker_symbol), now),
                    !.current_chart_url = Part("chart_url", Upper(ticker_symbol), now),
                    !.last_refresh_time = now],
          ok |-> TRUE]
    ELSE IF answer = "no_fields"
    THEN [ss |-> [ss EXCEPT
                    !.current_ticker = Upper(ticker_symbol),
                    !.current_quote = Missing("quote"),
                    !.current_news = Missing("news"),
                    !.current_chart_url = Missing("chart_url"),
                    !.last_refresh_time = now],
          ok |-> TRUE]
    ELSE IF answer = "not_object"
    THEN [ss |-> [ss EXCEPT !.current_ticker = Upper(ticker_symbol)], ok |-> FALSE]
    ELSE [ss |-> ss, ok |-> FALSE]

\* Lines 241-257: the cookie is looked at once per session while the session
\* is not authenticated; a cookie equal to the token authenticates and
\* reruns.
CookieCheck(ss, ck, env) ==
    IF ~ss.authenticated /\ ~ss.cookie_checked
    THEN LET checked == [ss EXCEPT !.cookie_checked = TRUE]
         IN  IF env.get = "ok" /\ ck # NoCookie /\ ck = generate_auth_token
             THEN [ss |-> [checked EXCEPT !.authenticated = TRUE], rerun |-> TRUE]
             ELSE [ss |-> checked, rerun |-> FALSE]
    ELSE [ss |-> ss, rerun |-> FALSE]

\* Lines 281-328: the login page and its button.
LoginPage(ss, ck, ev, env) ==
    IF ev.kind = "login" /\ ev.password = APP_PASSWORD
    THEN [ss     |-> [ss EXCEPT !.authenticated = TRUE],
          cookie |-> IF ev.remember_me /\ env.set = "ok"
                     THEN generate_auth_token ELSE ck,
          rerun  |-> TRUE]
    ELSE [ss |-> ss, cookie |-> ck, rerun |-> FALSE]

\* summary_key of the first article shown: the ticker shown and the
\* article's link.
SummaryKey(ss) == [ticker |-> ss.current_ticker, link |-> ss.current_news.ticker]

\* Whether the page shows an article with a summary button.
SummaryButton(ss) ==
    /\ ss.current_quote.id # 0
    /\ ss.current_news.id # 0
    /\ SummaryKey(ss) \notin ss.summaries

\* What a run of the script leaves: the session state, the cookie, the number
\* of requests made, and the page.
Ran(ss, ck, n, shown, rerun, ev, fetched) ==
    [ss |-> ss, cookie |-> ck, served |-> n,
     page |-> [shown |-> shown, rerun |-> rerun, event |-> ev, fetched |-> fetched]]

\* Lines 569-594 of the sidebar: the logout button and the auto-refresh
\* checkbox.
Sidebar(ss, ck, ev, env, n, fetched) ==
    IF ev.kind = "logout"
    THEN Ran([ss EXCEPT !.authenticated = FALSE, !.cookie_checked = FALSE],
             IF env.delete = "ok" THEN NoCookie ELSE ck,
             n, "main", TRUE, ev, fetched)
    ELSE IF ev.kind = "toggle"
    THEN Ran([ss EXCEPT !.auto_refresh_enabled = ~ss.auto_refresh_enabled],
             ck, n, "main", TRUE, ev, fetched)
    ELSE Ran(ss, ck, n, "main", FALSE, ev, fetched)

\* Lines 331-613: the main content.  before is the session state the page
\* that was clicked on showed.
MainPage(before, ss, ck, ev, env, n) ==
    LET clicked == ev.kind = "get_quote" /\ ev.ticker # <<>>
        typed == IF clicked THEN [ss EXCEPT !.ticker_input = Upper(ev.ticker)] ELSE ss
        manual == IF clicked
                  THEN fetch_quote_data(typed, Upper(ev.ticker), env.answer, n + 1)
                  ELSE [ss |-> typed, ok |-> FALSE]
        n1 == IF clicked THEN n + 1 ELSE n
    IN  IF clicked /\ manual.ok
        THEN Ran(manual.ss, ck, n1, "main", TRUE, ev, <<TRUE>>)
        ELSE
        LET auto == /\ manual.ss.auto_refresh_enabled
                    /\ manual.ss.current_ticker # <<>>
            refreshed == IF auto
                         THEN fetch_quote_data(manual.ss, manual.ss.current_ticker,
                                               env.refresh, n1 + 1)
                         ELSE [ss |-> manual.ss, ok |-> FALSE]
            n2 == IF auto THEN n1 + 1 ELSE n1
            fetched == (IF clicked THEN <<manual.ok>> ELSE <<>>)
                          \o (IF auto THEN <<refreshed.ok>> ELSE <<>>)
            shown == refreshed.ss
            pressed == /\ ev.kind = "summary"
                       /\ SummaryButton(shown)
                       /\ SummaryKey(shown) = SummaryKey(before)
        IN  IF pressed /\ env.summary = "ok"
            THEN Ran([shown EXCEPT !.summaries = @ \cup {SummaryKey(shown)}],
                     ck, n2 + 1, "main", TRUE, ev, fetched)
            ELSE Sidebar(shown, ck, ev, env, IF pressed THEN n2 + 1 ELSE n2, fetched)

\* Script without the st.stop() that ends the login page.
ScriptNoStop(ss, ck, ev, env, n) ==
    LET checked == CookieCheck(ss, ck, env)
    IN  IF checked.rerun
        THEN Ran(checked.ss, ck, n, "none", TRUE, ev, <<>>)
        ELSE IF ~checked.ss.authenticated
        THEN LET login == LoginPage(checked.ss, ck, ev, env)
             IN  IF login.rerun
                 THEN Ran(login.ss, login.cookie, n, "login", login.rerun, ev, <<>>)
                 ELSE MainPage(ss, login.ss, login.cookie, ev, env, n)
        ELSE MainPage(ss, checked.ss, ck, ev, env, n)

\* One run of the script: the cookie check, then the login page and st.stop()
\* while the session is not authenticated, the main content otherwise.  A
\* st.rerun() ends the run where it is called.
Script(ss, ck, ev, env, n) ==
    LET checked == CookieCheck(ss, ck, env)
    IN  IF checked.rerun
        THEN Ran(checked.ss, ck, n, "none", TRUE, ev, <<>>)
        ELSE IF ~checked.ss.authenticated
        THEN LET login == LoginPage(checked.ss, ck, ev, env)
             IN  Ran(login.ss, login.cookie, n, "login", login.rerun, ev, <<>>)
        ELSE MainPage(ss, checked.ss, ck, ev, env, n)

\* What the passwords typed are, and the tickers.
Passwords == {APP_PASSWORD, <<"letmein">>, <<>>}

TypedTickers == {<<>>, <<"aapl">>, <<"MSFT">>}

\* The cookie a browser comes with: none, the token, the token of a password
\* that is no longer the configured one.
Cookies == {NoCookie, generate_auth_token, AuthToken(<<"letmein">>)}

\* What the calls of one run meet: cookies.get, cookies.set and cookies.delete
\* work or raise, and so do the requests to the backend (answer for the Get
\* Quote button, refresh for the auto-refresh, summary for Get Summary).
Outcomes == {"ok", "raise"}

Working ==
    [get |-> "ok", set |-> "ok", delete |-> "ok", answer |-> "quote",
     refresh |-> "quote", summary |-> "ok"]

\* The environments of a run that reaches the main content, by what the
\* button used calls.
Refreshing == {[Working EXCEPT !.refresh = r] : r \in Answers}

Event(kind) == [NoEvent EXCEPT !.kind = kind]

DashInit ==
    /\ session_state = Defaults
    /\ cookie \in Cookies
    /\ page = NoPage
    /\ served = 0
    /\ text = <<>>
    /\ max_sentences = 1
    /\ fail = NoFailure
    /\ pc = "off"
    /\ result = Returned(<<>>)
    /\ summary = <<>>
    /\ summary_en = <<>>
    /\ cap_pc = "off"
    /\ request = NoRequest
    /\ upstream = NoUpstream
    /\ response = NoResponse
    /\ calls = <<>>

DashFrame ==
    UNCHANGED <<text, max_sentences, fail, pc, result, summary, summary_en,
                cap_pc, api_vars, calls>>

\* One run of the script on the session state ss for the event ev, in one of
\* the environments envs.
Run(ss, ev, envs) ==
    /\ \E env \in envs :
         LET ran == Script(ss, cookie, ev, env, served)
         IN  /\ ran.served <= MaxServed
             /\ session_state' = ran.ss
             /\ cookie' = ran.cookie
             /\ page' = ran.page
             /\ served' = ran.served
    /\ DashFrame

\* The page is opened or reloaded: a new session.
LoadPage == Run(Defaults, Event("load"), {[Working EXCEPT !.get = g] : g \in Outcomes})

\* The run that st.rerun() asked for.
RerunScript ==
    /\ page.rerun
    /\ Run(session_state, NoEvent,
           {[e EXCEPT !.get = g] : e \in Refreshing, g \in Outcomes})

\* The login button, with what was typed and ticked.
SubmitLogin ==
    /\ ~page.rerun /\ page.shown = "login"
    /\ \E password \in Passwords, remember_me \in BOOLEAN :
         Run(session_state,
             [Event("login") EXCEPT !.password = password,
                                    !.remember_me = remember_me],
             {[Working EXCEPT !.set = o] : o \in Outcomes})

\* The Get Quote button, with what was typed.
GetQuoteClick ==
    /\ ~page.rerun /\ page.shown = "main"
    /\ \E ticker \in TypedTickers :
         Run(session_state, [Event("get_quote") EXCEPT !.ticker = ticker],
             {[e EXCEPT !.answer = a] : e \in Refreshing, a \in Answers})

\* The timer of st_autorefresh.
AutoRefresh ==
    /\ ~page.rerun /\ page.shown = "main"
    /\ session_state.auto_refresh_enabled /\ session_state.current_ticker # <<>>
    /\ Run(session_state, Event("refresh"), Refreshing)

\* The Get Summary button of the article shown.
SummaryClick ==
    /\ ~page.rerun /\ page.shown = "main"
    /\ SummaryButton(session_state)
    /\ Run(session_state, Event("summary"),
           {[e EXCEPT !.summary = o] : e \in Refreshing, o \in Outcomes})

\* The auto-refresh checkbox.
ToggleAutoRefresh ==
    /\ ~page.rerun /\ page.shown = "main"
    /\ Run(session_state, Event("toggle"), Refreshing)

\* The logout button.
Logout ==
    /\ ~page.rerun /\ page.shown = "main"
    /\ Run(session_state, Event("logout"),
           {[e EXCEPT !.delete = o] : e \in Refreshing, o \in Outcomes})

DashNext ==
    \/ LoadPage
    \/ RerunScript
    \/ SubmitLogin
    \/ GetQuoteClick
    \/ AutoRefresh
    \/ SummaryClick
    \/ ToggleAutoRefresh
    \/ Logout

SpecDash == DashInit /\ [][DashNext]_vars

----------------------------------------------------------------------------
(* Properties of create_better_summary *)

\* The sentences of the document and of the returned summary.
DocSentences == SentTokenize(text)

OutSentences == SentTokenize(result.value)

\* The score of one sentence of the document, as section 3 of the
\* specification defines it: the sum of its words' document frequencies.
ScoreOf(sentence) == SumFreq(WordTokenize(Lower(sentence)), WordFreq(text))

\* The elements of s at the positions P, in the order of s.
SubseqAt(s, P) ==
    [k \in 1..Cardinality(P) |->
        s[CHOOSE p \in P : Cardinality({q \in P : q < p}) = k - 1]]

\* C1: when the sentence tokenizer works and yields at most max_sentences
\* sentences, the call returns the text itself, whitespace included.
C1_ShortTextUnchanged ==
    (pc # "call" /\ fail.at # "sent" /\ Len(DocSentences) <= max_sentences)
        => result = Returned(text)

C1_Witness ==
    /\ pc = "returned"
    /\ fail.at = "none"
    /\ Len(DocSentences) >= 2
    /\ Len(DocSentences) <= max_sentences
    /\ text # JoinSp(DocSentences)
    /\ result.value = text

\* C2: any two sentences of the summary stand in the order in which the
\* document has them, whatever their scores and also when texts repeat.
C2_OrderPreserved ==
    pc = "returned" =>
        LET doc == DocSentences
            out == OutSentences
        IN  \A i, j \in DOMAIN out :
                i < j => \E p, q \in DOMAIN doc :
                            p < q /\ doc[p] = out[i] /\ doc[q] = out[j]

C2_Witness ==
    /\ pc = "returned"
    /\ fail.at = "none"
    /\ Len(DocSentences) > max_sentences
    /\ Len(OutSentences) >= 2
    /\ ScoreOf(OutSentences[1]) < ScoreOf(OutSentences[2])
    /\ \E p, q \in DOMAIN DocSentences : p # q /\ DocSentences[p] = DocSentences[q]

\* C3: the summary is made of the document's sentences at a set of distinct
\* positions, each verbatim and in document order, on the scoring path and on
\* the fallback path.
C3_Subsequence ==
    pc = "returned" =>
        LET doc == DocSentences
            out == OutSentences
        IN  \E P \in SUBSET DOMAIN doc : out = SubseqAt(doc, P)

C3_Witness ==
    /\ pc = "returned"
    /\ fail.at = "none"
    /\ Len(DocSentences) > max_sentences
    /\ OutSentences # <<>>
    /\ OutSentences # Take(DocSentences, Len(OutSentences))
    /\ \E i \in DOMAIN OutSentences : Lower(OutSentences[i]) # OutSentences[i]

\* C4: the summary has at most max_sentences sentences, with repeated
\* sentence texts and on the fallback path too.
C4_AtMostMaxSentences ==
    pc = "returned" => Len(OutSentences) <= max_sentences

C4_Witness ==
    /\ pc = "returned"
    /\ fail.at = "none"
    /\ Len(DocSentences) > max_sentences
    /\ Len(OutSentences) = max_sentences
    /\ Cardinality({p \in DOMAIN DocSentences :
                      DocSentences[p] \in Range(OutSentences)}) > max_sentences

\* C5: with more than max_sentences sentences and no error, the summary is
\* the document's sentences at a set of positions such that no sentence left
\* out scores strictly higher than a sentence kept.
C5_TopByScore ==
    (pc = "returned" /\ fail.at = "none" /\ Len(DocSentences) > max_sentences)
        => LET doc == DocSentences
               out == OutSentences
               score == [p \in DOMAIN doc |-> ScoreOf(doc[p])]
           IN  \E P \in SUBSET DOMAIN doc :
                  /\ out = SubseqAt(doc, P)
                  /\ \A p \in P : \A q \in (DOMAIN doc) \ P : score[q] <= score[p]

\* C6: no call ends with an exception, and when the sentence tokenizer fails
\* in the try branch and again in the except branch the text is returned.
C6_NeverRaises ==
    /\ pc # "raised"
    /\ (pc # "call" /\ fail.at = "sent" /\ fail.again) => result = Returned(text)

\* C7: when the stopword lookup, the word tokenizer or the scoring raises
\* and the sentence tokenizer works, the call returns the first max_sentences
\* sentences of the document joined by single spaces.
C7_FallbackFirstSentences ==
    (pc # "call" /\ fail.at \in {"stop", "word", "score"} /\ ~fail.again
        /\ Len(DocSentences) > max_sentences)
        => result = Returned(JoinSp(Take(DocSentences, max_sentences)))

C7_Witness ==
    /\ pc = "returned"
    /\ fail.at = "word"
    /\ ~fail.again
    /\ Len(DocSentences) > max_sentences
    /\ result.value = JoinSp(Take(DocSentences, max_sentences))
    /\ result.value # ScoredSummary(text, max_sentences)

----------------------------------------------------------------------------
(* Properties of the word cap *)

\* The number of whitespace-delimited words of a string.
WordCount(s) == Len(Split(s))

\* Whether the cap changed the summary it was given.
CapTruncated == cap_pc = "capped" /\ summary_en # Defaulted(summary)

EndsWith(s, suffix) ==
    /\ Len(s) >= Len(suffix)
    /\ SubSeq(s, Len(s) - Len(suffix) + 1, Len(s)) = suffix

\* The text before the last three characters of s.
BeforeMarker(s) == SubSeq(s, 1, Len(s) - Len(Ellipsis))

EndsSentence(s) == s # <<>> /\ s[Len(s)] \in Terminators

\* C8: the cap applied to its own output gives that output again.
C8_CapIdempotent ==
    cap_pc = "capped" => WordCap(summary_en) = summary_en

C8_Witness ==
    /\ CapTruncated
    /\ WordCount(summary_en) = MaxWords
    /\ WordCap(summary_en) = summary_en

\* C9: the cap never raises the word count, its result has at most 500
\* words, and a result that differs from the input ends with a sentence
\* terminator or with the ellipsis marker.
C9_CapBoundsWords ==
    cap_pc = "capped" =>
        /\ WordCount(summary_en) <= WordCount(Defaulted(summary))
        /\ WordCount(summary_en) <= MaxWords
        /\ CapTruncated => (EndsSentence(summary_en) \/ EndsWith(summary_en, Ellipsis))

C9_Witness ==
    /\ CapTruncated
    /\ WordCount(Defaulted(summary)) > MaxWords + 1
    /\ WordCount(summary_en) < MaxWords
    /\ EndsWith(summary_en, Ellipsis)

LastCappedPosition(s, word_limit) ==
    SelectSeq(Positions(s),
        LAMBDA i : ~IsSpace(s[i]) /\ (i = Len(s) \/ IsSpace(s[i + 1])))[word_limit]

\* C11: a summary (summary_en as line 682 sets it) of at most 500 words
\* comes out of the cap as it went in, character for character.
C11_WithinLimitUnchanged ==
    (cap_pc = "capped" /\ WordCount(Defaulted(summary)) <= MaxWords)
        => summary_en = Defaulted(summary)

C11_Witness ==
    /\ cap_pc = "capped"
    /\ WordCount(summary) = MaxWords
    /\ summary # JoinSp(Split(summary))
    /\ \E i \in 1..(Len(summary) - 1) : summary[i] \in Terminators /\ IsSpace(summary[i + 1])
    /\ summary_en = summary

\* C12: a summary of more than 500 words with no '.', '!' or '?' followed by
\* whitespace up to the end of its 500th word comes out as its first 500
\* words joined by single spaces, and the ellipsis.
C12_NoCutPointFirstWords ==
    (cap_pc = "capped" /\ WordCount(summary) > MaxWords)
        => LET last == LastCappedPosition(summary, MaxWords)
           IN  (~\E i \in 1..last :
                    /\ summary[i] \in Terminators
                    /\ i < Len(summary)
                    /\ IsSpace(summary[i + 1]))
               => summary_en = JoinSp(Take(Split(summary), MaxWords)) \o Ellipsis

C12_Witness ==
    /\ cap_pc = "capped"
    /\ WordCount(summary) > MaxWords + 1
    /\ summary_en = JoinSp(Take(Split(summary), MaxWords)) \o Ellipsis
    /\ SubSeq(summary_en, 1, Len(summary_en) - Len(Ellipsis))
          # SubSeq(summary, 1, Len(summary_en) - Len(Ellipsis))
    /\ \E i \in 1..LastCappedPosition(summary, MaxWords) : summary[i] \in Terminators
    /\ ~\E i \in 1..LastCappedPosition(summary, MaxWords) :
          summary[i] \in Terminators /\ IsSpace(summary[i + 1])

----------------------------------------------------------------------------
(* Properties of the HTTP handlers *)

\* C13: when the translation provider raises, /news/summary still succeeds
\* and its summary_zh is its summary_en, the word-capped English summary.
C13_TranslationFailureFallsBack ==
    (/\ request.endpoint = "/news/summary"
     /\ response # NoResponse
     /\ request.url # <<>>
     /\ upstream.download = "ok"
     /\ upstream.translate = "raise")
        => /\ response.status = 200
           /\ response.body.summary_zh = response.body.summary_en
           /\ response.body.summary_en = WordCap(Defaulted(summary))

C13_Witness ==
    /\ request.endpoint = "/news/summary"
    /\ response.status = 200
    /\ upstream.translate = "raise"
    /\ response.body.summary_zh = response.body.summary_en
    /\ response.body.summary_en # Defaulted(summary)
    /\ EndsWith(response.body.summary_zh, Ellipsis)

\* C14: whatever other calls are in progress and however their steps
\* interleave, a call of create_better_summary ends with what the same call
\* gives alone: a function of its own text and max_sentences (and of the
\* collaborators' failures during it).
C14_CallsIndependent ==
    \A c \in Callers :
        calls[c].pc = "done"
            => calls[c].result = CreateBetterSummary(calls[c].text,
                                     calls[c].max_sentences, calls[c].fail)

C14_Witness ==
    \E c \in Callers : \E d \in Callers \ {c} :
        /\ calls[c].pc = "done" /\ calls[d].pc = "done"
        /\ calls[c].text # calls[d].text
        /\ calls[c].sentence_scores # <<>> /\ calls[d].sentence_scores # <<>>
        /\ calls[c].result # calls[d].result
        /\ calls[c].result = Returned(ScoredSummary(calls[c].text, calls[c].max_sentences))
        /\ calls[d].result = Returned(ScoredSummary(calls[d].text, calls[d].max_sentences))

\* The tickers whose quote page get_watchlist asks for: those the loop
\* reaches before it leaves.
RECURSIVE FetchedTickers(_, _, _, _)
FetchedTickers(tickers, up, limit, count) ==
    IF tickers = <<>> \/ count >= limit THEN {}
    ELSE LET q == QuoteOf(up, Head(tickers))
         IN  {Head(tickers)} \cup
             FetchedTickers(Tail(tickers), up, limit,
                 IF q.quote_ok /\ Score(q) >= MinScore THEN count + 1 ELSE count)

\* The tickers of a /watchlist request whose quote fetch failed.
FailedTickers ==
    LET candidate_tickers == CandidateTickers(upstream)
    IN  { t \in FetchedTickers(Take(candidate_tickers, MaxToProcess), upstream,
                    LimitOf(request, DefaultWatchlistLimit), 0) :
            ~QuoteOf(upstream, t).quote_ok }

\* The CSV export was asked for and could not be fetched.
ExportFailed == upstream.export_url /\ ~upstream.export_ok

\* The pages of /market/overview whose quote fetch failed.
FailedIndices == {t \in DOMAIN upstream.quotes : ~upstream.quotes[t].ok}

\* An upstream fetch of the request failed.
FetchFailed ==
    CASE request.endpoint = "/news/summary" ->
            request.url # <<>> /\ upstream.download = "raise"
      [] request.endpoint = "/quote" ->
            request.ticker # <<>> /\ (~upstream.quote_ok \/ ~upstream.news_ok)
      [] request.endpoint = "/screener" -> ExportFailed
      [] request.endpoint = "/watchlist" -> ExportFailed \/ FailedTickers # {}
      [] request.endpoint = "/market/overview" -> FailedIndices # {}
      [] OTHER -> FALSE

\* C15 as the specification states it: every upstream fetch failure is
\* answered with an HTTP error, never with a successful response.
C15_EveryFetchFailureSurfaced ==
    (response # NoResponse /\ FetchFailed) => response.status >= 400

\* C15 as the code has it: a fetch failure is answered with 502 by
\* /news/summary, /quote and /screener; /watchlist answers 200, with the
\* predefined tickers where the export failed and without the tickers whose
\* quote failed; /market/overview answers 200 with N/A for the failed pages.
C15_FetchFailureSurfacedOrAbsorbed ==
    (response # NoResponse /\ FetchFailed) =>
        CASE request.endpoint \in {"/news/summary", "/quote", "/screener"} ->
                response.status = 502
          [] request.endpoint = "/watchlist" ->
                LET items == response.body.items
                    limit == LimitOf(request, DefaultWatchlistLimit)
                IN  /\ response.status = 200
                    /\ \A i \in DOMAIN items : items[i].ticker \notin FailedTickers
                    /\ ExportFailed =>
                         /\ \A i \in DOMAIN items :
                               items[i].ticker \in Range(WATCHLIST_FALLBACK_TICKERS)
                         /\ (limit > 0 /\ \E t \in Range(WATCHLIST_FALLBACK_TICKERS) :
                                LET q == QuoteOf(upstream, t)
                                IN  q.quote_ok /\ Score(q) >= MinScore)
                               => items # <<>>
          [] request.endpoint = "/market/overview" ->
                /\ response.status = 200
                /\ \A t \in FailedIndices :
                      IF t = "VIX" THEN response.body.vix.value = NA
                      ELSE response.body.indices[t].price = NA

C15_Witness ==
    /\ request.endpoint = "/watchlist"
    /\ response.status = 200
    /\ ExportFailed
    /\ FailedTickers # {}
    /\ response.body.count = 2
    /\ response.body.items[1].ticker = <<"GOOGL">>

----------------------------------------------------------------------------
(* Properties of create_better_summary on six sentences *)

\* The score of every sentence of the document, by position.
DocScores ==
    LET word_freq == WordFreq(text)
        doc == DocSentences
    IN  [i \in DOMAIN doc |-> SumFreq(WordTokenize(Lower(doc[i])), word_freq)]

\* The sentence s holds three words that no other word of the document is
\* more frequent than.
HoldsTopWords(s) ==
    LET word_freq == WordFreq(text)
        held == {LowerAtom(s[j]) : j \in DOMAIN s} \cap DOMAIN word_freq
    IN  \E T \in SUBSET held :
            /\ Cardinality(T) = 3
            /\ \A w \in T : \A v \in DOMAIN word_freq \ T : word_freq[w] >= word_freq[v]

\* The sentence at position i of the document is in the summary, at its
\* place among the sentences kept.
SelectedInPlace(i) ==
    LET doc == DocSentences
        out == OutSentences
    IN  \E P \in SUBSET DOMAIN doc : i \in P /\ out = SubseqAt(doc, P)

\* A call on six sentences with max_sentences=5 that returned from the
\* scoring path.
SixScored ==
    /\ pc = "returned"
    /\ fail.at = "none"
    /\ max_sentences = NewsMaxSentences
    /\ Len(DocSentences) = NewsMaxSentences + 1

\* The one sentence of the document that holds the three most frequent words.
OnlyTopWordsSentence(i) ==
    LET doc == DocSentences
    IN  /\ HoldsTopWords(doc[i])
        /\ \A j \in DOMAIN doc \ {i} : ~HoldsTopWords(doc[j])

\* C16 as the specification states it: of six sentences with max_sentences=5,
\* the one that holds the three most frequent words is in the summary, at its
\* original relative position, wherever it stands in the document.
C16_TopWordsSentenceSelected ==
    SixScored =>
        \A i \in DOMAIN DocSentences : OnlyTopWordsSentence(i) => SelectedInPlace(i)

\* C16 as the code has it: the sentence is in the summary, in place, when the
\* six texts differ from each other and some other sentence ranks below it: a
\* lower score, or the same score further down the document.
C16_SelectedUnlessOutranked ==
    SixScored =>
        LET doc == DocSentences
            score == DocScores
        IN  (\A i, j \in DOMAIN doc : i # j => doc[i] # doc[j])
            => \A i \in DOMAIN doc :
                  (/\ OnlyTopWordsSentence(i)
                   /\ \E j \in DOMAIN doc \ {i} :
                         \/ score[j] < score[i]
                         \/ score[j] = score[i] /\ j > i)
                      => SelectedInPlace(i)

C16_Witness ==
    /\ SixScored
    /\ \A i, j \in DOMAIN DocSentences : i # j => DocSentences[i] # DocSentences[j]
    /\ OnlyTopWordsSentence(NewsMaxSentences + 1)
    /\ Cardinality({j \in 1..NewsMaxSentences :
            DocScores[j] < DocScores[NewsMaxSentences + 1]}) = 1
    /\ SelectedInPlace(NewsMaxSentences + 1)
    /\ Len(OutSentences) = NewsMaxSentences

----------------------------------------------------------------------------
(* More properties of create_better_summary *)

\* C17: a document in which the sentence tokenizer finds a single sentence
\* comes back without an exception: as the whole text, or as its first
\* max_sentences whitespace-delimited chunks joined by spaces.
C17_SingleSentenceReturned ==
    (pc # "call" /\ fail.at # "sent" /\ Len(DocSentences) = 1)
        => /\ ~result.raised
           /\ \/ result.value = text
              \/ result.value = JoinSp(Take(Split(text), max_sentences))

C17_Witness ==
    /\ pc = "returned"
    /\ Len(DocSentences) = 1
    /\ fail.at = "score" /\ fail.again
    /\ result.value = text
    /\ text # Strip(text)
    /\ text # JoinSp(Take(Split(text), max_sentences))

\* sentence_scores of the call, as the scoring loop leaves it.
RankItems == SentenceScores(DocSentences, WordFreq(text), <<>>)

\* The score a sentence is ranked with: its entry in sentence_scores, 0 for a
\* sentence that has none.
RankScore(items, sentence) ==
    IF \E j \in DOMAIN items : items[j].sent = sentence
    THEN items[CHOOSE j \in DOMAIN items : items[j].sent = sentence].score
    ELSE 0

\* The count of the word w in the frequency table of the document: how often
\* it occurs among the lower-cased tokens, 0 for a stopword or a token that
\* is not alphanumeric.
TableCount(w) ==
    IF IsAlnum(w) /\ w \notin StopWords
    THEN LET tokens == WordTokenize(Lower(text))
         IN  Cardinality({i \in DOMAIN tokens : tokens[i] = w})
    ELSE 0

\* The sum of the table counts of the tokens of one sentence.
RECURSIVE SumCounts(_)
SumCounts(tokens) ==
    IF tokens = <<>> THEN 0
    ELSE TableCount(Head(tokens)) + SumCounts(Tail(tokens))

\* C18: the score each sentence occurrence is ranked with is the sum of the
\* table counts of its own tokens, whatever other sentences have the same
\* text.
C18_RankScoreIsOwnSum ==
    (pc = "returned" /\ fail.at = "none" /\ Len(DocSentences) > max_sentences)
        => LET items == RankItems
               doc == DocSentences
           IN  \A i \in DOMAIN doc :
                  RankScore(items, doc[i]) = SumCounts(WordTokenize(Lower(doc[i])))

\* C19: on the scoring path, a document of more than max_sentences sentences
\* gives a summary of exactly max_sentences sentences, also when some of its
\* sentences are made of stopwords or punctuation only or are repeated.
C19_ExactlyMaxSentences ==
    (pc = "returned" /\ fail.at = "none" /\ Len(DocSentences) > max_sentences)
        => Len(OutSentences) = max_sentences

\* C20: ties are broken by encounter order: of two sentences with the same
\* score, the later one is in the summary only if the earlier one is.
C20_TieBreakByEncounter ==
    (pc = "returned" /\ fail.at = "none" /\ Len(DocSentences) > max_sentences)
        => LET doc == DocSentences
               out == OutSentences
               score == DocScores
           IN  \E P \in SUBSET DOMAIN doc :
                  /\ out = SubseqAt(doc, P)
                  /\ \A p, q \in DOMAIN doc :
                        (p < q /\ score[p] = score[q] /\ q \in P) => p \in P


\* The first 500 words of the summary the cap is given, joined by single
\* spaces.
FirstWords == JoinSp(Take(Split(Defaulted(summary)), MaxWords))

\* The positions of s that hold a '.', '!' or '?' with whitespace after it.
CutPoints(s) == {i \in 1..(Len(s) - 1) : s[i] \in Terminators /\ IsSpace(s[i + 1])}

\* C21: when the cap truncates and the first 500 words, joined by single
\* spaces, hold a '.', '!' or '?' followed by whitespace, the result is that
\* string up to and including the last such mark, and the ellipsis; a
\* terminator that is the last character of the string is not a cut point.
C21_CutAtLastSentenceEnd ==
    (cap_pc = "capped" /\ WordCount(Defaulted(summary)) > MaxWords) =>
        LET first == FirstWords
            cuts == CutPoints(first)
        IN  cuts # {} =>
                LET last == CHOOSE i \in cuts : \A j \in cuts : j <= i
                IN  /\ summary_en = RStrip(SubSeq(first, 1, last)) \o Ellipsis
                    /\ summary_en = SubSeq(first, 1, last) \o Ellipsis
                    /\ last < Len(first)

C21_Witness ==
    /\ cap_pc = "capped"
    /\ WordCount(Defaulted(summary)) > MaxWords
    /\ EndsSentence(FirstWords)
    /\ CutPoints(FirstWords) # {}
    /\ Defaulted(summary) # JoinSp(Split(Defaulted(summary)))
    /\ WordCount(summary_en) < MaxWords
    /\ EndsSentence(BeforeMarker(summary_en))

----------------------------------------------------------------------------
(* Properties of /watchlist *)

\* A request for the watchlist that has been answered.
WatchlistAnswered == request.endpoint = "/watchlist" /\ response # NoResponse

\* The limit of the request.
WatchlistLimit == LimitOf(request, DefaultWatchlistLimit)

\* The candidates the loop may reach, in order: the first 100.
Considered ==
    LET candidate_tickers == CandidateTickers(upstream)
    IN  Take(candidate_tickers, Min(MaxToProcess, Len(candidate_tickers)))

\* Whether a candidate's quote page is fetched and its score is at least 2.
Qualifies(ticker) ==
    LET q == QuoteOf(upstream, ticker)
    IN  q.quote_ok /\ Score(q) >= MinScore

\* C22: for a limit that is not negative, /watchlist answers with at most
\* limit items, count is the number of items, the scores of the items never
\* increase along the list, and every item has a score of at least 2.
C22_WatchlistBounded ==
    (WatchlistAnswered /\ WatchlistLimit >= 0) =>
        /\ response.status = 200
        /\ LET items == response.body.items
           IN  /\ Len(items) <= WatchlistLimit
               /\ response.body.count = Len(items)
               /\ \A i \in 1..(Len(items) - 1) : items[i].score >= items[i + 1].score
               /\ \A i \in DOMAIN items : items[i].score >= MinScore

\* The limit is reached with candidates left, and the sort moved an item.
C22_Witness ==
    /\ WatchlistAnswered
    /\ WatchlistLimit = 2
    /\ response.status = 200
    /\ response.body.count = 2
    /\ response.body.items[1].score > response.body.items[2].score
    /\ \E i, j \in DOMAIN Considered :
          /\ i < j
          /\ Considered[i] = response.body.items[2].ticker
          /\ Considered[j] = response.body.items[1].ticker
    /\ \E i \in DOMAIN Considered : ~Qualifies(Considered[i])

\* The score of a candidate's quote page.
CandidateScore(ticker) == Score(QuoteOf(upstream, ticker))

\* The tickers of the returned items.
ReturnedTickers == {response.body.items[i].ticker : i \in DOMAIN response.body.items}

\* The qualifying candidates among those considered, in candidate order.
QualifyingCandidates == SelectSeq(Considered, Qualifies)

\* The position of a ticker in a list of distinct tickers.
PositionIn(tickers, ticker) == CHOOSE i \in DOMAIN tickers : tickers[i] = ticker

\* C23 as claimed: no qualifying candidate among the first 100 that is left
\* out of the answer has a strictly higher score than a returned item.
C23_HighestScoringReturned ==
    (WatchlistAnswered /\ WatchlistLimit >= 0 /\ response.status = 200) =>
        \A i \in DOMAIN Considered :
            (Qualifies(Considered[i]) /\ Considered[i] \notin ReturnedTickers) =>
                \A k \in DOMAIN response.body.items :
                    CandidateScore(Considered[i]) <= response.body.items[k].score

\* C23 as amended: the returned items are the first limit qualifying
\* candidates of the list, taken in candidate order among the first 100, and
\* they are ordered by score, highest first, equal scores in candidate order.
C23_FirstQualifyingSorted ==
    (WatchlistAnswered /\ WatchlistLimit >= 0) =>
        /\ response.status = 200
        /\ LET items == response.body.items
               first == Take(QualifyingCandidates, WatchlistLimit)
           IN  /\ Len(items) = Len(first)
               /\ ReturnedTickers = Range(first)
               /\ \A a, b \in DOMAIN items :
                    a < b =>
                       \/ items[a].score > items[b].score
                       \/ /\ items[a].score = items[b].score
                          /\ PositionIn(first, items[a].ticker)
                                < PositionIn(first, items[b].ticker)
               /\ \A k \in DOMAIN items :
                    items[k].score = CandidateScore(items[k].ticker)

\* A later qualifying candidate with a higher score is left out.
C23_Witness ==
    /\ WatchlistAnswered
    /\ WatchlistLimit = 1
    /\ response.status = 200
    /\ response.body.count = 1
    /\ \E i \in DOMAIN Considered :
          /\ Qualifies(Considered[i])
          /\ Considered[i] \notin ReturnedTickers
          /\ CandidateScore(Considered[i]) > response.body.items[1].score

\* How many of the candidates before the i-th qualify.
QualifyingBefore(i) == Cardinality({j \in 1..(i - 1) : Qualifies(Considered[j])})

\* The returned item of a ticker.
ItemOf(ticker) ==
    response.body.items[CHOOSE k \in DOMAIN response.body.items :
                            response.body.items[k].ticker = ticker]

\* C24: the request succeeds whatever quote pages raise; a ticker whose
\* processing raises is left out and the candidates after it are still
\* processed, so a qualifying candidate with fewer than limit qualifying
\* candidates before it is returned; a ticker whose news table raises is
\* still processed, with news_count 0 and nothing scored for news.
C24_TickerFailureSkipsOnlyThatTicker ==
    WatchlistAnswered =>
        /\ response.status = 200
        /\ \A i \in DOMAIN Considered :
             LET ticker == Considered[i]
                 q == QuoteOf(upstream, ticker)
             IN  /\ ~q.quote_ok => ticker \notin ReturnedTickers
                 /\ (Qualifies(ticker) /\ QualifyingBefore(i) < WatchlistLimit)
                        => ticker \in ReturnedTickers
                 /\ (ticker \in ReturnedTickers /\ ~q.news_ok) =>
                        /\ ItemOf(ticker).news_count = 0
                        /\ "news" \notin Range(ItemOf(ticker).reasons)
                        /\ ItemOf(ticker).score =
                              (IF ChangeHit(q) THEN 2 ELSE 0)
                                 + (IF VolumeHit(q) THEN 3 ELSE 0)
                                 + (IF VolatilityHit(q) THEN 1 ELSE 0)

\* Two tickers are returned: one comes after a ticker whose quote page
\* raised, one has a news table that raised.
C24_Witness ==
    /\ WatchlistAnswered
    /\ response.status = 200
    /\ response.body.count = 2
    /\ \E i, j \in DOMAIN Considered :
          /\ i < j
          /\ ~QuoteOf(upstream, Considered[i]).quote_ok
          /\ Considered[j] \in ReturnedTickers
    /\ \E i \in DOMAIN Considered :
          /\ Considered[i] \in ReturnedTickers
          /\ ~QuoteOf(upstream, Considered[i]).news_ok
    /\ upstream.export_url /\ upstream.export_ok

\* The severities of the risk checks a quote page triggers.
Triggered(q) ==
    {s \in {VolatilityRisk(q), EarningsRisk(q), VolumeRisk(q), NewsRisk(q)} : s # "none"}

\* The highest of a set of severities, "low" when there is none.
MaxSeverity(severities) ==
    IF "high" \in severities THEN "high"
    ELSE IF "medium" \in severities THEN "medium" ELSE "low"

\* C25: for every returned item, risk_level is the highest severity among the
\* risk checks its quote page triggers and is "low" exactly when risk_flags
\* is empty; risk_flags has one flag for every triggered check; the icon is
\* empty exactly when risk_flags is empty.
C25_RiskLevelIsMaxSeverity ==
    (WatchlistAnswered /\ response.status = 200) =>
        \A k \in DOMAIN response.body.items :
            LET item == response.body.items[k]
                q == QuoteOf(upstream, item.ticker)
            IN  /\ item.risk_level = MaxSeverity(Triggered(q))
                /\ (item.risk_level = "low") <=> (item.risk_flags = <<>>)
                /\ (item.risk_flags = <<>>) <=> (Triggered(q) = {})
                /\ ("high_iv" \in Range(item.risk_flags)) <=> (VolatilityRisk(q) # "none")
                /\ ("earnings" \in Range(item.risk_flags)) <=> (EarningsRisk(q) # "none")
                /\ ("volume" \in Range(item.risk_flags)) <=> (VolumeRisk(q) # "none")
                /\ ("news" \in Range(item.risk_flags)) <=> (NewsRisk(q) # "none")
                /\ (item.risk_flag = "") <=> (item.risk_flags = <<>>)

\* A check of high severity is followed by checks of medium severity.
C25_Witness ==
    /\ WatchlistAnswered
    /\ response.status = 200
    /\ response.body.count = 1
    /\ LET item == response.body.items[1]
           q == QuoteOf(upstream, item.ticker)
       IN  /\ VolatilityRisk(q) = "high"
           /\ EarningsRisk(q) = "medium"
           /\ VolumeRisk(q) = "none"
           /\ NewsRisk(q) = "medium"
           /\ item.risk_level = "high"
           /\ item.risk_flags = <<"high_iv", "earnings", "news">>
           /\ item.risk_flag = "red"

\* An item without any risk flag.
C25_WitnessLow ==
    /\ WatchlistAnswered
    /\ response.status = 200
    /\ response.body.count = 1
    /\ response.body.items[1].risk_level = "low"
    /\ response.body.items[1].risk_flags = <<>>
    /\ response.body.items[1].risk_flag = ""

----------------------------------------------------------------------------
(* Properties of /market/overview *)

\* A request for the market overview that has been answered.
MarketAnswered == request.endpoint = "/market/overview" /\ response # NoResponse

\* US Eastern time at the instant of the request: 5 hours behind UTC, 4
\* while daylight saving time is in force.
EasternTime == Shifted(upstream.utc, IF upstream.dst THEN -4 ELSE -5)

\* The session of a time of the week, from the minute of the day.
SessionAt(clock) ==
    LET m == 60 * clock.hour + clock.minute
    IN  IF clock.weekday \in {5, 6} THEN {"Closed"}
        ELSE {session \in {"Pre", "Regular", "After", "Closed"} :
                \/ session = "Pre" /\ 4 * 60 <= m /\ m <= 9 * 60 + 29
                \/ session = "Regular" /\ 9 * 60 + 30 <= m /\ m <= 15 * 60 + 59
                \/ session = "After" /\ 16 * 60 <= m /\ m <= 19 * 60 + 59
                \/ session = "Closed" /\ (m < 4 * 60 \/ m > 19 * 60 + 59)}

\* C26: for every weekday, hour and minute of Eastern time the ranges give
\* one session, and /market/overview answers with it: Closed on Saturday and
\* Sunday, on the other days Pre for 04:00-09:29, Regular for 09:30-15:59,
\* After for 16:00-19:59 and Closed otherwise.
C26_SessionOfEasternTime ==
    MarketAnswered =>
        /\ response.status = 200
        /\ Cardinality(SessionAt(EasternTime)) = 1
        /\ response.body.session \in SessionAt(EasternTime)

----------------------------------------------------------------------------
(* Properties of the dashboard *)

\* Whether the step is a run that starts a session without the flag: the
\* flag was false, or the page was loaded anew.
StartsUnauthenticated == ~session_state.authenticated \/ page'.event.kind = "load"

\* C27: a run reaches the main content only in a session whose authenticated
\* flag is true; the flag becomes true only in a run where the password
\* submitted is the configured one or where the cookie is the token derived
\* from the configured password; a wrong password changes neither the flag
\* nor the cookie.
C27_AuthenticationGate ==
    [][ /\ (page'.shown = "main")
            => (session_state.authenticated /\ page'.event.kind # "load")
        /\ (StartsUnauthenticated /\ session_state'.authenticated)
            => \/ /\ page'.event.kind = "login"
                  /\ page'.event.password = APP_PASSWORD
               \/ cookie = AuthToken(APP_PASSWORD)
        /\ (page'.event.kind = "login" /\ page'.event.password # APP_PASSWORD)
            => /\ ~session_state'.authenticated
               /\ cookie' = cookie
      ]_vars

\* A wrong password was submitted, with "remember me" ticked, by a browser
\* whose cookie is not the token: the login page is still shown.
C27_Witness ==
    /\ page.shown = "login"
    /\ page.event.kind = "login"
    /\ page.event.password = <<"letmein">>
    /\ page.event.remember_me
    /\ cookie = AuthToken(<<"letmein">>)
    /\ ~session_state.authenticated
    /\ session_state.cookie_checked

\* C28: the run of the logout button leaves the session unauthenticated and
\* the cookie cleared, and from then on no run of the session makes it
\* authenticated but one that submits the configured password: the cookie
\* check of the run that follows the logout does not.
C28_LogoutStaysLoggedOut ==
    [][ /\ (page'.event.kind = "logout")
            => /\ ~session_state'.authenticated
               /\ cookie' = NoCookie
        /\ (/\ ~session_state.authenticated
            /\ page'.event.kind # "load"
            /\ session_state'.authenticated)
            => /\ page'.event.kind = "login"
               /\ page'.event.password = APP_PASSWORD
      ]_vars

\* The five fields fetch_quote_data assigns.
QuoteState(ss) ==
    <<ss.current_ticker, ss.current_quote, ss.current_news, ss.current_chart_url,
      ss.last_refresh_time>>

\* Whether quote, news and chart are the parts of one answer for
\* current_ticker, fetched at last_refresh_time, or are all missing.
FromOneResponse(ss) ==
    \/ /\ ss.current_quote = Missing("quote")
       /\ ss.current_news = Missing("news")
       /\ ss.current_chart_url = Missing("chart_url")
    \/ /\ ss.last_refresh_time # 0
       /\ ss.current_quote = Part("quote", ss.current_ticker, ss.last_refresh_time)
       /\ ss.current_news = Part("news", ss.current_ticker, ss.last_refresh_time)
       /\ ss.current_chart_url = Part("chart_url", ss.current_ticker, ss.last_refresh_time)

\* C29: a run all of whose calls of fetch_quote_data return False leaves
\* current_ticker, current_quote, current_news, current_chart_url and
\* last_refresh_time as they were, and after every run the quote, the news
\* and the chart are the parts of one answer for current_ticker.
C29_QuoteStateAtomic ==
    [][ /\ (page'.fetched # <<>> /\ \A i \in DOMAIN page'.fetched : ~page'.fetched[i])
            => QuoteState(session_state') = QuoteState(session_state)
        /\ FromOneResponse(session_state')
      ]_vars
====
